---------------------------- MODULE Spec2Model ----------------------------
(***************************************************************************)
(* A model of the assessment marking engine (src/ai_marking.py, class      *)
(* AssessmentAI).  The engine is idle until a client calls one of its      *)
(* methods; the method's action draws the arguments from bounded sets,     *)
(* records them in `call` and the value the method returns in `ret`; the   *)
(* client then takes the value and the engine is idle again.               *)
(*                                                                         *)
(* Conventions                                                             *)
(*   - A Python str is a sequence of one-character strings.                *)
(*   - A Python dict is the sequence of its entries in insertion order.    *)
(*   - A Python float that the code obtains by dividing two integers is a  *)
(*     record [num, den, ulp]: the exact quotient num/den together with    *)
(*     the sign of the IEEE-754 rounding error where that error moves an   *)
(*     integer-valued result off the integer (ulp = 0 elsewhere).          *)
(***************************************************************************)
EXTENDS Integers, Sequences, FiniteSets, TLC

VARIABLES
    call,        \* the operation or request under way, with what was passed
    ret,         \* what it returned
    engine,      \* the attributes of the shared AssessmentAI instance
    hash_order,  \* the order in which this process iterates each set of strings
    records,     \* the records passed to the engine, as they are after the call
    earlier,     \* an earlier call on the shared engine and what it returned
    sessions,    \* the session of each client
    db,          \* the committed rows: the submission and the marks
    reqs         \* the mark_work requests: where each is and what it holds

engineVars == <<engine, hash_order, records, earlier>>
loginVars == <<sessions>>
markVars == <<db, reqs>>
vars == <<call, ret, engineVars, loginVars, markVars>>

(***************************************************************************)
(* Bounds of the model.                                                    *)
(***************************************************************************)
MaxPctHalves  == 200   \* percentages 0, 0.5, ..., MaxPctHalves/2 are tried
MaxBoundaries == 2     \* entries of a grade-boundary map
MaxBriefTopics == 3    \* topics of a brief
MaxStudentTopics == 2  \* topics of a submission

(***************************************************************************)
(* Generic helpers.                                                        *)
(***************************************************************************)
Range(s) == {s[i] : i \in 1..Len(s)}

Min(a, b) == IF a <= b THEN a ELSE b

\* All sequences over S of length 0..n.
SeqsUpTo(S, n) == UNION {[1..k -> S] : k \in 0..n}

(***************************************************************************)
(* Python str: characters, classes, and the str methods the code uses.     *)
(***************************************************************************)
LowerSeq == <<"a", "b", "c", "d", "e", "f", "g", "h", "i", "j", "k", "l", "m", "n", "o", "p", "q", "r", "s", "t", "u", "v", "w", "x", "y", "z">>
UpperSeq == <<"A", "B", "C", "D", "E", "F", "G", "H", "I", "J", "K", "L", "M", "N", "O", "P", "Q", "R", "S", "T", "U", "V", "W", "X", "Y", "Z">>
DigitSeq == <<"0", "1", "2", "3", "4", "5", "6", "7", "8", "9">>

LowerLetters == Range(LowerSeq)
UpperLetters == Range(UpperSeq)
Digits == Range(DigitSeq)

IsAlpha(c) == c \in LowerLetters \/ c \in UpperLetters   \* [A-Za-z]
IsDigit(c) == c \in Digits                               \* \d
IsSpace(c) == c \in {" ", "\n", "\t"}                    \* \s

IndexIn(seq, c) == CHOOSE i \in 1..Len(seq) : seq[i] = c

\* int(c) for one digit
DigitVal(c) == IndexIn(DigitSeq, c) - 1

\* int(s) for a run of digits
RECURSIVE int(_)
int(s) == IF s = << >> THEN 0
          ELSE 10 * int(SubSeq(s, 1, Len(s) - 1)) + DigitVal(s[Len(s)])

LowerChar(c) == IF c \in UpperLetters THEN LowerSeq[IndexIn(UpperSeq, c)] ELSE c

\* s.lower()
lower(s) == [i \in 1..Len(s) |-> LowerChar(s[i])]

\* First index >= i whose character is not of the class, Len(s) + 1 if none
\* (i itself if i is beyond the string).
SkipSpaces(s, i) ==
    IF i > Len(s) THEN i
    ELSE CHOOSE j \in i..(Len(s) + 1) :
            /\ j > Len(s) \/ ~IsSpace(s[j])
            /\ \A k \in i..(j - 1) : IsSpace(s[k])

SkipDigits(s, i) ==
    IF i > Len(s) THEN i
    ELSE CHOOSE j \in i..(Len(s) + 1) :
            /\ j > Len(s) \/ ~IsDigit(s[j])
            /\ \A k \in i..(j - 1) : IsDigit(s[k])

SkipAlpha(s, i) ==
    IF i > Len(s) THEN i
    ELSE CHOOSE j \in i..(Len(s) + 1) :
            /\ j > Len(s) \/ ~IsAlpha(s[j])
            /\ \A k \in i..(j - 1) : IsAlpha(s[k])

\* Last index <= i whose character is not whitespace, 0 if none.
BackSpaces(s, i) ==
    IF i < 1 THEN i
    ELSE CHOOSE j \in 0..i :
            /\ j = 0 \/ ~IsSpace(s[j])
            /\ \A k \in (j + 1)..i : IsSpace(s[k])

\* s.strip()
strip(s) == SubSeq(s, SkipSpaces(s, 1), BackSpaces(s, Len(s)))

\* s.rstrip(':)')
rstrip_colon_paren(s) ==
    SubSeq(s, 1, CHOOSE j \in 0..Len(s) :
                    /\ j = 0 \/ s[j] \notin {":", ")"}
                    /\ \A k \in (j + 1)..Len(s) : s[k] \in {":", ")"})

\* s.startswith(lit, i)
HasAt(s, i, lit) ==
    /\ i >= 1
    /\ i + Len(lit) - 1 <= Len(s)
    /\ \A k \in 1..Len(lit) : s[i + k - 1] = lit[k]

\* sub in s
Contains(s, sub) == \E i \in 1..(Len(s) - Len(sub) + 1) : HasAt(s, i, sub)

\* len(s.split()): the number of maximal runs of non-whitespace.
WordCountOf(s) ==
    Cardinality({i \in 1..Len(s) :
        ~IsSpace(s[i]) /\ (i = 1 \/ IsSpace(s[i - 1]))})

\* The strictly increasing sequence of the members of a set of integers.
SortedSeq(S) ==
    [k \in 1..Cardinality(S) |->
        CHOOSE i \in S : Cardinality({j \in S : j <= i}) = k]

\* s.split('\n\n') from index b on: the separators are taken left to right
\* and do not overlap.
RECURSIVE SplitBlank(_, _)
SplitBlank(s, b) ==
    LET i == CHOOSE j \in b..(Len(s) + 1) :
                /\ j > Len(s) \/ HasAt(s, j, <<"\n", "\n">>)
                /\ \A k \in b..(j - 1) : ~HasAt(s, k, <<"\n", "\n">>)
    IN  IF i > Len(s) THEN << SubSeq(s, b, Len(s)) >>
        ELSE << SubSeq(s, b, i - 1) >> \o SplitBlank(s, i + 2)

\* ' '.join(parts)
RECURSIVE JoinSpace(_)
JoinSpace(parts) ==
    IF parts = << >> THEN << >>
    ELSE IF Len(parts) = 1 THEN parts[1]
    ELSE parts[1] \o <<" ">> \o JoinSpace(Tail(parts))

\* Concatenation of a sequence of strings.
RECURSIVE Concat(_)
Concat(parts) == IF parts = << >> THEN << >> ELSE parts[1] \o Concat(Tail(parts))

(***************************************************************************)
(* _extract_keywords.  The entities, noun chunks and verbs come from the   *)
(* spaCy pipeline, which is not part of the repository: the alphabetic     *)
(* words of the text stand for them.  What the code itself does with them  *)
(* is modelled as written: lower-case, drop duplicates, longest first,     *)
(* at most 20.                                                             *)
(***************************************************************************)
MaxKeywords == 20

\* The maximal runs of letters of s, in text order.
AlphaWords(s) ==
    LET starts == SortedSeq({i \in 1..Len(s) :
                      IsAlpha(s[i]) /\ (i = 1 \/ ~IsAlpha(s[i - 1]))})
    IN  [k \in 1..Len(starts) |->
            SubSeq(s, starts[k], SkipAlpha(s, starts[k]) - 1)]

\* list(set(keywords)), the order of first occurrence standing for the set's.
Dedup(ws) ==
    LET firsts == SortedSeq({k \in 1..Len(ws) :
                      \A j \in 1..(k - 1) : ws[j] # ws[k]})
    IN  [k \in 1..Len(firsts) |-> ws[firsts[k]]]

\* keywords.sort(key=len, reverse=True): a stable sort, longest first.
SortByLen(ws) ==
    [r \in 1..Len(ws) |->
        ws[CHOOSE k \in 1..Len(ws) :
              Cardinality({j \in 1..Len(ws) :
                  \/ Len(ws[j]) > Len(ws[k])
                  \/ Len(ws[j]) = Len(ws[k]) /\ j < k}) = r - 1]]

\* keywords[:20]
FirstKeywords(keywords) == SubSeq(keywords, 1, Min(Len(keywords), MaxKeywords))

_extract_keywords(text) == FirstKeywords(SortByLen(Dedup(AlphaWords(lower(text)))))

(***************************************************************************)
(* process_rubric, first pass: re.findall of                               *)
(*   ([A-Za-z\s]+)\s*\((\d+)%\):(.+?)(?=[A-Za-z\s]+\s*\(\d+%\):|Grade [A-F]:|$) *)
(* with re.DOTALL.                                                         *)
(***************************************************************************)
IsNameChar(c) == IsAlpha(c) \/ IsSpace(c)      \* [A-Za-z\s]

SkipName(s, i) ==
    IF i > Len(s) THEN i
    ELSE CHOOSE j \in i..(Len(s) + 1) :
            /\ j > Len(s) \/ ~IsNameChar(s[j])
            /\ \A k \in i..(j - 1) : IsNameChar(s[k])

\* Where [A-Za-z\s]+\s*\(\d+%\): matched at i ends (the index after the ':'),
\* 0 if it does not match at i.  The greedy name takes the whole run of
\* letters and whitespace, so the '(' can only be the character after the run.
HeaderEnd(s, i) ==
    IF i > Len(s) \/ ~IsNameChar(s[i]) THEN 0
    ELSE LET j == SkipName(s, i)
             k == SkipDigits(s, j + 1)
         IN  IF /\ HasAt(s, j, <<"(">>)
                /\ k > j + 1
                /\ HasAt(s, k, <<"%", ")", ":">>)
             THEN k + 3 ELSE 0

\* Grade [A-F]: at e
GradeHeaderAt(s, e) ==
    /\ HasAt(s, e, <<"G", "r", "a", "d", "e", " ">>)
    /\ e + 7 <= Len(s)
    /\ s[e + 6] \in {"A", "B", "C", "D", "E", "F"}
    /\ s[e + 7] = ":"

\* The lookahead that ends a description; $ also matches before a final \n.
DescriptionStops(s, e) ==
    \/ e = Len(s) + 1
    \/ e = Len(s) /\ s[e] = "\n"
    \/ HeaderEnd(s, e) # 0
    \/ GradeHeaderAt(s, e)

\* (.+?): lazy, so the first index from e on where the lookahead holds.
DescriptionEnd(s, e) ==
    CHOOSE j \in e..(Len(s) + 1) :
        /\ DescriptionStops(s, j)
        /\ \A k \in e..(j - 1) : ~DescriptionStops(s, k)

\* The pattern matches at i: a header, and one character at least after it.
WeightedAt(s, i) == HeaderEnd(s, i) # 0 /\ HeaderEnd(s, i) <= Len(s)

\* re.findall from pos: the (name, weight, description) groups of each match,
\* the next search starting where the match ended.
RECURSIVE FindWeighted(_, _)

\* The groups of the match at i and of the matches after it; no match if i
\* is beyond the text.
WeightedFrom(s, i) ==
    IF i > Len(s) THEN << >>
    ELSE LET j == SkipName(s, i)
             h == HeaderEnd(s, i)
             e == DescriptionEnd(s, h + 1)
         IN  << << SubSeq(s, i, j - 1),
                   SubSeq(s, j + 1, SkipDigits(s, j + 1) - 1),
                   SubSeq(s, h, e - 1) >> >> \o FindWeighted(s, e)

FindWeighted(s, pos) ==
    IF pos > Len(s) THEN << >>
    ELSE WeightedFrom(s, CHOOSE m \in pos..(Len(s) + 1) :
                            /\ m > Len(s) \/ WeightedAt(s, m)
                            /\ \A k \in pos..(m - 1) : ~WeightedAt(s, k))

\* The criterion appended for each match.
WeightedMatches(matches) ==
    [i \in 1..Len(matches) |->
        [name |-> strip(matches[i][1]),
         weight |-> int(matches[i][2]),
         description |-> strip(matches[i][3]),
         keywords |-> _extract_keywords(strip(matches[i][3]))]]

WeightedCriteria(rubric_text) == WeightedMatches(FindWeighted(rubric_text, 1))

(***************************************************************************)
(* process_rubric, second pass: blank-line paragraphs; a paragraph of at   *)
(* most 10 words ending in ':' or ')' is a criterion header.               *)
(***************************************************************************)
MaxHeaderWords == 10
DefaultWeight == 25

ParagraphCriterion(current_criterion, current_description) ==
    [name |-> current_criterion,
     description |-> JoinSpace(current_description),
     keywords |-> _extract_keywords(JoinSpace(current_description)),
     weight |-> DefaultWeight]

IsHeaderParagraph(para) ==
    /\ WordCountOf(para) <= MaxHeaderWords
    /\ para[Len(para)] \in {":", ")"}

\* The for loop over the paragraphs, then "add the last criterion".  An empty
\* current_criterion stands for None as well: the code only tests its truth.
RECURSIVE ParagraphLoop(_, _, _, _, _)
ParagraphLoop(paras, i, current_criterion, current_description, criteria) ==
    IF i > Len(paras)
    THEN IF current_criterion # << >>
         THEN Append(criteria, ParagraphCriterion(current_criterion, current_description))
         ELSE criteria
    ELSE LET para == strip(paras[i])
         IN  IF para = << >>
             THEN ParagraphLoop(paras, i + 1, current_criterion,
                                current_description, criteria)
             ELSE IF IsHeaderParagraph(para)
             THEN ParagraphLoop(paras, i + 1, rstrip_colon_paren(para), << >>,
                      IF current_criterion # << >>
                      THEN Append(criteria,
                               ParagraphCriterion(current_criterion, current_description))
                      ELSE criteria)
             ELSE ParagraphLoop(paras, i + 1, current_criterion,
                      IF current_criterion # << >>
                      THEN Append(current_description, para)
                      ELSE current_description,
                      criteria)

ParagraphCriteria(rubric_text) ==
    ParagraphLoop(SplitBlank(rubric_text, 1), 1, << >>, << >>, << >>)

(***************************************************************************)
(* process_rubric, third tier: the default criteria.                       *)
(***************************************************************************)
default_criteria ==
    <<
       [name |-> <<"C", "o", "n", "t", "e", "n", "t">>,
        weight |-> 40,
        description |-> <<"Q", "u", "a", "l", "i", "t", "y", " ", "a", "n", "d", " ", "c", "o", "m", "p", "r", "e", "h", "e", "n", "s", "i", "v", "e", "n", "e", "s", "s", " ", "o", "f", " ", "c", "o", "n", "t", "e", "n", "t">>,
        keywords |->
        << <<"c", "o", "n", "t", "e", "n", "t">>,
           <<"q", "u", "a", "l", "i", "t", "y">>,
           <<"c", "o", "m", "p", "r", "e", "h", "e", "n", "s", "i", "v", "e">>,
           <<"u", "n", "d", "e", "r", "s", "t", "a", "n", "d", "i", "n", "g">>,
           <<"k", "n", "o", "w", "l", "e", "d", "g", "e">> >>],
       [name |-> <<"S", "t", "r", "u", "c", "t", "u", "r", "e">>,
        weight |-> 30,
        description |-> <<"O", "r", "g", "a", "n", "i", "z", "a", "t", "i", "o", "n", " ", "a", "n", "d", " ", "l", "o", "g", "i", "c", "a", "l", " ", "f", "l", "o", "w">>,
        keywords |->
        << <<"s", "t", "r", "u", "c", "t", "u", "r", "e">>,
           <<"o", "r", "g", "a", "n", "i", "z", "a", "t", "i", "o", "n">>,
           <<"f", "l", "o", "w">>,
           <<"c", "o", "h", "e", "r", "e", "n", "t">>,
           <<"l", "o", "g", "i", "c", "a", "l">> >>],
       [name |-> <<"R", "e", "s", "e", "a", "r", "c", "h">>,
        weight |-> 20,
        description |-> <<"U", "s", "e", " ", "o", "f", " ", "s", "o", "u", "r", "c", "e", "s", " ", "a", "n", "d", " ", "e", "v", "i", "d", "e", "n", "c", "e">>,
        keywords |->
        << <<"r", "e", "s", "e", "a", "r", "c", "h">>,
           <<"s", "o", "u", "r", "c", "e", "s">>,
           <<"e", "v", "i", "d", "e", "n", "c", "e">>,
           <<"r", "e", "f", "e", "r", "e", "n", "c", "e", "s">>,
           <<"c", "i", "t", "a", "t", "i", "o", "n">> >>],
       [name |-> <<"L", "a", "n", "g", "u", "a", "g", "e">>,
        weight |-> 10,
        description |-> <<"G", "r", "a", "m", "m", "a", "r", ",", " ", "s", "p", "e", "l", "l", "i", "n", "g", ",", " ", "a", "n", "d", " ", "a", "c", "a", "d", "e", "m", "i", "c", " ", "w", "r", "i", "t", "i", "n", "g", " ", "s", "t", "y", "l", "e">>,
        keywords |->
        << <<"l", "a", "n", "g", "u", "a", "g", "e">>,
           <<"g", "r", "a", "m", "m", "a", "r">>,
           <<"s", "p", "e", "l", "l", "i", "n", "g">>,
           <<"w", "r", "i", "t", "i", "n", "g">>,
           <<"s", "t", "y", "l", "e">> >>]
    >>

(***************************************************************************)
(* _extract_grade_boundaries                                               *)
(***************************************************************************)
\* One entry of a boundary dict: grade -> (lower, upper).
Boundary(g, lo, hi) == [grade |-> g, lower |-> lo, upper |-> hi]

\* The keys of grade_patterns, in the order the dict lists them.
grade_labels ==
    << <<"A">>, <<"B">>, <<"C">>, <<"D">>, <<"F">>, <<"F", "a", "i", "l">>, 
       <<"P", "a", "s", "s">>, <<"M", "e", "r", "i", "t">>, <<"D", "i", "s", "t", "i", "n", "c", "t", "i", "o", "n">> >>

\* (?:Grade|Mark)\s*<label>:?\s*(\d+)(?:\s*-\s*(\d+))? matched at i of the
\* text, case-insensitively: the (lower, upper) pair stored, << >> if no match.
\* The match is followed left to right, one piece of the pattern at a time.

\* (?:Grade|Mark) at i: the index after it, 0 if it is not there.
KeywordEnd(low, i) ==
    IF HasAt(low, i, <<"g", "r", "a", "d", "e">>) THEN i + 5
    ELSE IF HasAt(low, i, <<"m", "a", "r", "k">>) THEN i + 4 ELSE 0

\* (?:\s*-\s*(\d+))? after the first number d..e-1, f being the first index
\* after the whitespace that follows it.
LabelledRange(low, d, e, f) ==
    LET g == SkipSpaces(low, f + 1)
        h == SkipDigits(low, g)
    IN  IF HasAt(low, f, <<"-">>) /\ h > g
        THEN << int(SubSeq(low, d, e - 1)), int(SubSeq(low, g, h - 1)) >>
        ELSE << int(SubSeq(low, d, e - 1)), int(SubSeq(low, d, e - 1)) >>

\* (\d+) at d, and what follows it.
LabelledNumber(low, d) ==
    IF SkipDigits(low, d) = d THEN << >>
    ELSE LabelledRange(low, d, SkipDigits(low, d),
                       SkipSpaces(low, SkipDigits(low, d)))

\* <label>:?\s* at b, and what follows it.
LabelledLabel(low, b, label) ==
    IF ~HasAt(low, b, lower(label)) THEN << >>
    ELSE LabelledNumber(low,
             SkipSpaces(low, IF HasAt(low, b + Len(label), <<":">>)
                             THEN b + Len(label) + 1 ELSE b + Len(label)))

LabelledAt(low, i, label) ==
    IF KeywordEnd(low, i) = 0 THEN << >>
    ELSE LabelledLabel(low, SkipSpaces(low, KeywordEnd(low, i)), label)

\* re.search: the leftmost match, << >> if there is none (nothing matches
\* beyond the text).
SearchLabelled(low, label) ==
    LabelledAt(low,
               CHOOSE m \in 1..(Len(low) + 1) :
                   /\ m > Len(low) \/ LabelledAt(low, m, label) # << >>
                   /\ \A k \in 1..(m - 1) : LabelledAt(low, k, label) = << >>,
               label)

\* boundaries[grade] = (lower, upper or lower) if the pattern of the grade matched.
LabelledEntry(grade, m) ==
    IF m = << >> THEN << >> ELSE << Boundary(grade, m[1], m[2]) >>

RECURSIVE LabelledBoundaries(_, _)
LabelledBoundaries(low, n) ==
    IF n > Len(grade_labels) THEN << >>
    ELSE LabelledEntry(grade_labels[n], SearchLabelled(low, grade_labels[n]))
             \o LabelledBoundaries(low, n + 1)

\* (\d{1,2})\s*(?:-|to)\s*(\d{1,2})%?\s*(?:=|:)?\s*([A-Za-z]+) matched at i:
\* <<lower, upper, grade, end>>, << >> if no match.
MaxPercentDigits == 2

\* \s*(?:=|:)?\s*([A-Za-z]+) at f, after the numbers i..a-1 and d..e-1.
InferredGrade(s, i, a, d, e, f) ==
    LET g == SkipSpaces(s, IF HasAt(s, f, <<"=">>) \/ HasAt(s, f, <<":">>)
                           THEN f + 1 ELSE f)
        h == SkipAlpha(s, g)
    IN  IF h = g THEN << >>
        ELSE << int(SubSeq(s, i, a - 1)), int(SubSeq(s, d, e - 1)),
                SubSeq(s, g, h - 1), h >>

\* (\d{1,2})%? at d, and what follows it.
InferredUpper(s, i, a, d) ==
    IF SkipDigits(s, d) = d THEN << >>
    ELSE InferredGrade(s, i, a, d, Min(SkipDigits(s, d), d + MaxPercentDigits),
             SkipSpaces(s,
                 IF HasAt(s, Min(SkipDigits(s, d), d + MaxPercentDigits), <<"%">>)
                 THEN Min(SkipDigits(s, d), d + MaxPercentDigits) + 1
                 ELSE Min(SkipDigits(s, d), d + MaxPercentDigits)))

\* (?:-|to)\s* at b, and what follows it.
InferredSeparator(s, i, a, b) ==
    IF HasAt(s, b, <<"-">>) THEN InferredUpper(s, i, a, SkipSpaces(s, b + 1))
    ELSE IF HasAt(s, b, <<"t", "o">>)
         THEN InferredUpper(s, i, a, SkipSpaces(s, b + 2))
         ELSE << >>

InferredAt(s, i) ==
    IF SkipDigits(s, i) = i THEN << >>
    ELSE InferredSeparator(s, i, Min(SkipDigits(s, i), i + MaxPercentDigits),
             SkipSpaces(s, Min(SkipDigits(s, i), i + MaxPercentDigits)))

\* boundaries[grade] = (lower, upper): a new key goes last, a known key keeps
\* its place and takes the new value.
DictSet(boundaries, b) ==
    IF \E i \in 1..Len(boundaries) : boundaries[i].grade = b.grade
    THEN [i \in 1..Len(boundaries) |->
            IF boundaries[i].grade = b.grade THEN b ELSE boundaries[i]]
    ELSE Append(boundaries, b)

\* re.finditer from pos, the next search starting where the match ended.
RECURSIVE InferredBoundaries(_, _, _)

\* boundaries[grade] = (lower, upper) for the match m, then the later matches.
InferredStore(s, m, boundaries) ==
    InferredBoundaries(s, m[4], DictSet(boundaries, Boundary(m[3], m[1], m[2])))

\* The match at i and the matches after it; no match if i is beyond the text.
InferredFrom(s, i, boundaries) ==
    IF i > Len(s) THEN boundaries
    ELSE InferredStore(s, InferredAt(s, i), boundaries)

InferredBoundaries(s, pos, boundaries) ==
    IF pos > Len(s) THEN boundaries
    ELSE InferredFrom(s, CHOOSE n \in pos..(Len(s) + 1) :
                             /\ n > Len(s) \/ InferredAt(s, n) # << >>
                             /\ \A k \in pos..(n - 1) : InferredAt(s, k) = << >>,
                      boundaries)

\* "if not boundaries": the second set of patterns is tried only then.
LabelledOrInferred(boundaries, text) ==
    IF boundaries = << >> THEN InferredBoundaries(text, 1, << >>) ELSE boundaries

_extract_grade_boundaries(text) ==
    LabelledOrInferred(LabelledBoundaries(lower(text), 1), text)

(***************************************************************************)
(* process_rubric                                                          *)
(***************************************************************************)
\* "if not criteria": the paragraph pass runs only if the weighted pass
\* found nothing, the default set is used only if both found nothing.
OrParagraphs(criteria, rubric_text) ==
    IF criteria = << >> THEN ParagraphCriteria(rubric_text) ELSE criteria

OrDefault(criteria) == IF criteria = << >> THEN default_criteria ELSE criteria

\* A bug: the second pass runs whether or not the first found criteria.
process_rubric_all_passes(rubric_text) ==
    [criteria |-> OrDefault(WeightedCriteria(rubric_text)
                                \o ParagraphCriteria(rubric_text)),
     grade_boundaries |-> _extract_grade_boundaries(rubric_text),
     full_text |-> rubric_text]

\* A bug: no default criteria when both passes find nothing.
process_rubric_no_default(rubric_text) ==
    [criteria |-> OrParagraphs(WeightedCriteria(rubric_text), rubric_text),
     grade_boundaries |-> _extract_grade_boundaries(rubric_text),
     full_text |-> rubric_text]

process_rubric(rubric_text) ==
    [criteria |-> OrDefault(OrParagraphs(WeightedCriteria(rubric_text),
                                         rubric_text)),
     grade_boundaries |-> _extract_grade_boundaries(rubric_text),
     full_text |-> rubric_text]

(***************************************************************************)
(* Floats.  lower <= percentage <= upper compares a float with integers.   *)
(***************************************************************************)
Pct(num, den, ulp) == [num |-> num, den |-> den, ulp |-> ulp]

\* percentage >= n
PctGeq(p, n) == IF p.num = n * p.den THEN p.ulp >= 0 ELSE p.num > n * p.den

\* percentage <= n
PctLeq(p, n) == IF p.num = n * p.den THEN p.ulp <= 0 ELSE p.num < n * p.den

(***************************************************************************)
(* _determine_grade                                                        *)
(***************************************************************************)
default_boundaries ==
    << Boundary(<<"A">>, 80, 100), Boundary(<<"B">>, 70, 79),
       Boundary(<<"C">>, 60, 69),  Boundary(<<"D">>, 50, 59),
       Boundary(<<"F">>, 0, 49) >>

\* The if/elif chain that follows the loop.
GradeFallbackNoD(percentage) ==
    IF PctGeq(percentage, 80) THEN <<"A">>
    ELSE IF PctGeq(percentage, 70) THEN <<"B">>
    ELSE IF PctGeq(percentage, 60) THEN <<"C">>
    ELSE <<"F">>

GradeFallback(percentage) ==
    IF PctGeq(percentage, 80) THEN <<"A">>
    ELSE IF PctGeq(percentage, 70) THEN <<"B">>
    ELSE IF PctGeq(percentage, 60) THEN <<"C">>
    ELSE IF PctGeq(percentage, 50) THEN <<"D">>
    ELSE <<"F">>

InBoundary(percentage, b) ==
    PctGeq(percentage, b.lower) /\ PctLeq(percentage, b.upper)

\* for grade, (lower, upper) in boundaries.items(): return the first match.
RECURSIVE ScanBoundaries(_, _, _)
ScanBoundaries(percentage, boundaries, i) ==
    IF i > Len(boundaries) THEN GradeFallback(percentage)
    ELSE IF InBoundary(percentage, boundaries[i]) THEN boundaries[i].grade
    ELSE ScanBoundaries(percentage, boundaries, i + 1)

\* A bug: the loop keeps the last matching boundary instead of returning
\* at the first.
RECURSIVE ScanBoundariesLast(_, _, _, _)
ScanBoundariesLast(percentage, boundaries, i, found) ==
    IF i > Len(boundaries)
    THEN (IF found = << >> THEN GradeFallback(percentage) ELSE found)
    ELSE ScanBoundariesLast(percentage, boundaries, i + 1,
            IF InBoundary(percentage, boundaries[i])
            THEN boundaries[i].grade ELSE found)

_determine_grade_last(percentage, grade_boundaries) ==
    ScanBoundariesLast(percentage,
        IF grade_boundaries # << >> THEN grade_boundaries ELSE default_boundaries,
        1, << >>)

_determine_grade(percentage, grade_boundaries) ==
    ScanBoundaries(percentage,
        IF grade_boundaries # << >> THEN grade_boundaries ELSE default_boundaries,
        1)

(***************************************************************************)
(* _calculate_topic_coverage.  The similarity of two topics comes from     *)
(* the spaCy model, which is not part of the repository: `similar` is the  *)
(* set of the pairs <<brief_topic, student_topic>> whose similarity        *)
(* exceeds 0.7.  The float returned is the quotient [num, den].            *)
(***************************************************************************)
Ratio(num, den) == [num |-> num, den |-> den]

\* The two tests of the inner loop's body.
TopicsMatch(brief_topic, student_topic, similar) ==
    \/ Contains(student_topic, brief_topic)
    \/ Contains(brief_topic, student_topic)
    \/ <<brief_topic, student_topic>> \in similar

\* A bug: no break, every matching student topic counts.
RECURSIVE CoveredByNoBreak(_, _, _, _)
CoveredByNoBreak(brief_topic, student_topics, j, similar) ==
    IF j > Len(student_topics) THEN 0
    ELSE (IF TopicsMatch(brief_topic, student_topics[j], similar) THEN 1 ELSE 0)
         + CoveredByNoBreak(brief_topic, student_topics, j + 1, similar)

\* for student_topic in student_topics: what the loop adds to covered_topics,
\* 1 at the first match (break), 0 if it runs to its end.
RECURSIVE CoveredBy(_, _, _, _)
CoveredBy(brief_topic, student_topics, j, similar) ==
    IF j > Len(student_topics) THEN 0
    ELSE IF TopicsMatch(brief_topic, student_topics[j], similar) THEN 1
    ELSE CoveredBy(brief_topic, student_topics, j + 1, similar)

\* for brief_topic in brief_topics
RECURSIVE CoveredTopics(_, _, _, _)
CoveredTopics(student_topics, brief_topics, i, similar) ==
    IF i > Len(brief_topics) THEN 0
    ELSE CoveredBy(brief_topics[i], student_topics, 1, similar)
         + CoveredTopics(student_topics, brief_topics, i + 1, similar)

_calculate_topic_coverage(student_topics, brief_topics, similar) ==
    IF brief_topics = << >> THEN Ratio(1, 1)
    ELSE Ratio(CoveredTopics(student_topics, brief_topics, 1, similar),
               Len(brief_topics))

(***************************************************************************)
(* extract_urls: re.findall of                                             *)
(*   https?:// HOST+ (?:/ PATH* )?                                          *)
(* where HOST is [-\w.] or %[\da-fA-F]{2} and PATH is [-\w./%?&=+#],        *)
(* then urlparse of each match, kept if it has a scheme and a netloc.      *)
(***************************************************************************)
IsWordChar(c) == IsAlpha(c) \/ IsDigit(c) \/ c = "_"          \* \w
IsHexDigit(c) ==
    IsDigit(c) \/ c \in {"a", "b", "c", "d", "e", "f", "A", "B", "C", "D", "E", "F"}

\* One repetition of (?:[-\w.]|(?:%[\da-fA-F]{2})) starts at j.  The two
\* digits of an escape are word characters, so the run of repetitions ends
\* at the first index where none starts.
IsHostAt(s, j) ==
    \/ IsWordChar(s[j]) \/ s[j] \in {"-", "."}
    \/ /\ s[j] = "%"
       /\ j + 2 <= Len(s)
       /\ IsHexDigit(s[j + 1]) /\ IsHexDigit(s[j + 2])

IsPathChar(c) ==
    IsWordChar(c) \/ c \in {"-", ".", "/", "%", "?", "&", "=", "+", "#"}

SkipHost(s, i) ==
    IF i > Len(s) THEN i
    ELSE CHOOSE j \in i..(Len(s) + 1) :
            /\ j > Len(s) \/ ~IsHostAt(s, j)
            /\ \A k \in i..(j - 1) : IsHostAt(s, k)

SkipPath(s, i) ==
    IF i > Len(s) THEN i
    ELSE CHOOSE j \in i..(Len(s) + 1) :
            /\ j > Len(s) \/ ~IsPathChar(s[j])
            /\ \A k \in i..(j - 1) : IsPathChar(s[k])

\* https?:// at i: the index after it, 0 if it is not there.
SchemeEnd(s, i) ==
    IF HasAt(s, i, <<"h", "t", "t", "p", "s", ":", "/", "/">>) THEN i + 8
    ELSE IF HasAt(s, i, <<"h", "t", "t", "p", ":", "/", "/">>) THEN i + 7 ELSE 0

\* The optional path at h, the index after the host.
PathEnd(s, h) == IF HasAt(s, h, <<"/">>) THEN SkipPath(s, h + 1) ELSE h

\* Where the pattern matched at i ends (the index after the match), 0 if it
\* does not match at i.
HostEnd(s, a) == IF a = 0 \/ SkipHost(s, a) = a THEN 0 ELSE PathEnd(s, SkipHost(s, a))

UrlEnd(s, i) == HostEnd(s, SchemeEnd(s, i))

\* re.findall from pos, the next search starting where the match ended.
RECURSIVE FindUrls(_, _)

UrlsFrom(s, i) ==
    IF i > Len(s) THEN << >>
    ELSE << SubSeq(s, i, UrlEnd(s, i) - 1) >> \o FindUrls(s, UrlEnd(s, i))

FindUrls(s, pos) ==
    IF pos > Len(s) THEN << >>
    ELSE UrlsFrom(s, CHOOSE m \in pos..(Len(s) + 1) :
                        /\ m > Len(s) \/ UrlEnd(s, m) # 0
                        /\ \A k \in pos..(m - 1) : UrlEnd(s, k) = 0)

\* urlparse(url).scheme: what precedes the first ':', if it begins with a
\* letter and holds only letters, digits, '+', '-' and '.'.
FirstIndexOf(url, chars) ==
    CHOOSE j \in 1..(Len(url) + 1) :
        /\ j > Len(url) \/ url[j] \in chars
        /\ \A k \in 1..(j - 1) : url[k] \notin chars

IsSchemeChar(c) == IsAlpha(c) \/ IsDigit(c) \/ c \in {"+", "-", "."}

UrlScheme(url, colon) ==
    IF /\ colon > 1 /\ colon <= Len(url)
       /\ IsAlpha(url[1])
       /\ \A k \in 1..(colon - 1) : IsSchemeChar(url[k])
    THEN lower(SubSeq(url, 1, colon - 1)) ELSE << >>

\* urlparse(url).netloc: after the scheme, what follows "//" up to the first
\* '/', '?' or '#'.
UrlNetloc(url, rest) ==
    IF HasAt(rest, 1, <<"/", "/">>)
    THEN SubSeq(rest, 3, FirstIndexOf(SubSeq(rest, 3, Len(rest)), {"/", "?", "#"}) + 1)
    ELSE << >>

urlparse(url) ==
    [scheme |-> UrlScheme(url, FirstIndexOf(url, {":"})),
     netloc |-> IF UrlScheme(url, FirstIndexOf(url, {":"})) = << >>
                THEN UrlNetloc(url, url)
                ELSE UrlNetloc(url, SubSeq(url, FirstIndexOf(url, {":"}) + 1,
                                           Len(url)))]

\* The loop that keeps the urls with a scheme and a netloc.
ValidUrls(urls) ==
    LET kept == SortedSeq({i \in 1..Len(urls) :
                    /\ urlparse(urls[i]).scheme # << >>
                    /\ urlparse(urls[i]).netloc # << >>})
    IN  [k \in 1..Len(kept) |-> urls[kept[k]]]

\* The valid urls, each kept once.
extract_urls_unique(text) == Dedup(ValidUrls(FindUrls(text, 1)))

extract_urls(text) == ValidUrls(FindUrls(text, 1))

(***************************************************************************)
(* The spaCy document of a text.  The pipeline is not part of the          *)
(* repository; what the code reads of it is stood for as follows: the      *)
(* alphabetic tokens are the maximal runs of letters, a sentence is a      *)
(* stretch of text up to a '.', and the noun chunks of more than one word  *)
(* are the pairs of successive words.  The document of an empty text has   *)
(* no token, no sentence and no chunk, as in spaCy.                        *)
(***************************************************************************)
\* len([token for token in doc if token.is_alpha])
AlphaTokenCount(text) == Len(AlphaWords(text))

\* len(list(doc.sents))
SentenceCount(text) ==
    Cardinality({i \in 1..Len(text) :
        /\ ~IsSpace(text[i]) /\ text[i] # "."
        /\ \A k \in 1..(i - 1) :
               (\A m \in (k + 1)..(i - 1) : IsSpace(text[m]))
                   => (IsSpace(text[k]) \/ text[k] = ".")})

\* chunk.text of the noun chunks of more than one word
NounChunkPairs(words) ==
    [k \in 1..(Len(words) \div 2) |->
        words[2 * k - 1] \o <<" ">> \o words[2 * k]]

NounChunks(text) == NounChunkPairs(AlphaWords(text))

\* (ent.text, ent.label_) of the entities: the capitalised words.
Entities(text) ==
    LET words == AlphaWords(text)
        caps == SortedSeq({k \in 1..Len(words) : words[k][1] \in UpperLetters})
    IN  [k \in 1..Len(caps) |-> << words[caps[k]], "ENT" >>]

(***************************************************************************)
(* analyze_url_content.  The HTTP exchange and the HTML parser are outside *)
(* the repository: `response` is what they produce, either               *)
(*   [ok |-> FALSE, error |-> the text of the exception], or               *)
(*   [ok |-> TRUE, titled, title, paragraphs, meta_description].           *)
(***************************************************************************)
MaxContentSample == 500
MaxNlpContent == 5000
MaxKeyPhrases == 10
MaxEntities == 10

Prefix(s, n) == SubSeq(s, 1, Min(Len(s), n))            \* s[:n]

\* content += para.get_text() + " "
RECURSIVE PageContent(_)
PageContent(paragraphs) ==
    IF paragraphs = << >> THEN << >>
    ELSE Head(paragraphs) \o <<" ">> \o PageContent(Tail(paragraphs))

\* A sample cut at 500 characters with no marker after it.
ContentSampleNoMarker(content) == Prefix(content, MaxContentSample)

\* content[:500] + "..." if len(content) > 500 else content
ContentSample(content) ==
    IF Len(content) > MaxContentSample
    THEN Prefix(content, MaxContentSample) \o <<".", ".", ".">>
    ELSE content

PageTitle(response) ==
    IF response.titled THEN response.title
    ELSE <<"N", "o", " ", "t", "i", "t", "l", "e">>

\* The two dicts of the try block.
PageAnalysis(url, response, content) ==
    IF content # << >>
    THEN [url |-> url,
          title |-> PageTitle(response),
          meta_description |-> response.meta_description,
          key_phrases |-> Prefix(NounChunks(Prefix(content, MaxNlpContent)),
                                 MaxKeyPhrases),
          entities |-> Prefix(Entities(Prefix(content, MaxNlpContent)),
                              MaxEntities),
          content_sample |-> ContentSample(content)]
    ELSE [url |-> url,
          title |-> PageTitle(response),
          meta_description |-> response.meta_description,
          content_sample |-> ContentSample(content)]

\* The docstring's "None if failed" in place of the except clause's dict.
analyze_url_content_none(url, response) ==
    IF response.ok
    THEN PageAnalysis(url, response, PageContent(response.paragraphs))
    ELSE [none |-> TRUE]

analyze_url_content(url, response) ==
    IF response.ok
    THEN PageAnalysis(url, response, PageContent(response.paragraphs))
    ELSE [url |-> url, error |-> response.error, status |-> "failed"]

(***************************************************************************)
(* _calculate_criterion_relevance and round.  The relevance is the         *)
(* quotient [num, den]; round(relevance * 10) rounds half to even, and     *)
(* for the quotients k/n of up to 20 keywords the float product is on the  *)
(* same side of each half as the exact one.                                *)
(***************************************************************************)
\* keyword_count: the keywords whose lower case is in the lower-cased text.
KeywordCount(text, criterion_keywords) ==
    Cardinality({k \in 1..Len(criterion_keywords) :
        Contains(lower(text), lower(criterion_keywords[k]))})

\* The proportion as it is, with no bound.
ClampNot(relevance) == relevance

\* min(0.9, max(0.3, relevance))
Clamp(relevance) ==
    IF 10 * relevance.num < 3 * relevance.den THEN Ratio(3, 10)
    ELSE IF 10 * relevance.num > 9 * relevance.den THEN Ratio(9, 10)
    ELSE relevance

\* A bug: a criterion without keywords gets the lowest score, not the middle.
_calculate_criterion_relevance_low(text, criterion_keywords) ==
    IF criterion_keywords = << >> THEN Ratio(3, 10)
    ELSE Clamp(Ratio(KeywordCount(text, criterion_keywords),
                     Len(criterion_keywords)))

_calculate_criterion_relevance(text, criterion_keywords) ==
    IF criterion_keywords = << >> THEN Ratio(1, 2)
    ELSE Clamp(Ratio(KeywordCount(text, criterion_keywords),
                     Len(criterion_keywords)))

\* round(num / den) for num >= 0, den > 0: half goes to the even neighbour.
RoundHalfEven(num, den) ==
    IF 2 * (num % den) < den THEN num \div den
    ELSE IF 2 * (num % den) > den THEN (num \div den) + 1
    ELSE IF (num \div den) % 2 = 0 THEN num \div den
    ELSE (num \div den) + 1

(***************************************************************************)
(* total / max * 100.  The float differs from the exact quotient by a      *)
(* rounding error; the error matters to the code's comparisons only where  *)
(* the exact quotient is an integer, and for max <= 80 these are the       *)
(* quotients it moves off the integer.                                     *)
(***************************************************************************)
FloatUlp(total, max) ==
    IF <<total, max>> \in {<<11, 20>>, <<22, 40>>, <<7, 50>>, <<14, 50>>,
                           <<28, 50>>, <<33, 60>>, <<44, 80>>} THEN 1
    ELSE IF <<total, max>> = <<29, 50>> THEN -1
    ELSE 0

Percentage(total, max) == Pct(total * 100, max, FloatUlp(total, max))

(***************************************************************************)
(* _generate_criterion_feedback.  A sentence built around the criterion's  *)
(* name is the record [before, name, after]; None is [none |-> TRUE].      *)
(***************************************************************************)
None == [none |-> TRUE]

Sentence(before, name, after) == [before |-> before, name |-> name, after |-> after]

Strength(percentage, name) ==
    IF PctGeq(percentage, 80) THEN Sentence("Excellent demonstration of ", name, "")
    ELSE IF PctGeq(percentage, 60) THEN Sentence("Good demonstration of ", name, "")
    ELSE IF PctGeq(percentage, 40) THEN Sentence("Adequate demonstration of ", name, "")
    ELSE None

\* No weakness from 60 per cent on.
WeaknessBelowSixty(percentage, name) ==
    IF PctGeq(percentage, 60) THEN None
    ELSE IF PctGeq(percentage, 40)
         THEN Sentence("Need to develop ", name, " more thoroughly")
    ELSE Sentence("Significant improvement needed in ", name, "")

Weakness(percentage, name) ==
    IF PctGeq(percentage, 80) THEN None
    ELSE IF PctGeq(percentage, 60)
         THEN Sentence("Could further improve ", name, " by providing more depth")
    ELSE IF PctGeq(percentage, 40)
         THEN Sentence("Need to develop ", name, " more thoroughly")
    ELSE Sentence("Significant improvement needed in ", name, "")

_generate_criterion_feedback(criterion_name, score, max_score) ==
    [strength |-> Strength(Percentage(score, max_score), lower(criterion_name)),
     weakness |-> Weakness(Percentage(score, max_score), lower(criterion_name)),
     suggestions |-> Sentence("Consider reviewing the requirements for ",
                              lower(criterion_name), " in the assessment brief")]

(***************************************************************************)
(* _generate_overall_feedback.  general_comments is the record of the      *)
(* sentences it is built of: the comment of the percentage band, the       *)
(* comment on the topic coverage, and the number of external sources the   *)
(* last sentence names (0: the sentence is not added).                     *)
(***************************************************************************)
\* The values of the key of the marks' feedback that are not None, in order.
FeedbackOf(criteria_marks, key) ==
    LET kept == SortedSeq({i \in 1..Len(criteria_marks) :
                    criteria_marks[i].feedback[key] # None})
    IN  [k \in 1..Len(kept) |-> criteria_marks[kept[k]].feedback[key]]

BandComment(percentage) ==
    IF PctGeq(percentage, 80)
    THEN "Excellent work that demonstrates a comprehensive understanding of the subject matter."
    ELSE IF PctGeq(percentage, 70)
    THEN "Very good work that shows a solid understanding of the subject matter."
    ELSE IF PctGeq(percentage, 60)
    THEN "Good work that demonstrates understanding of most key aspects of the subject matter."
    ELSE IF PctGeq(percentage, 50)
    THEN "Satisfactory work that meets the basic requirements but lacks depth in some areas."
    ELSE "This work does not meet the minimum requirements and needs significant improvement."

\* topic_coverage > 0.8, > 0.6, else
CoverageComment(topic_coverage) ==
    IF 5 * topic_coverage.num > 4 * topic_coverage.den
    THEN " The work covers all key topics effectively."
    ELSE IF 5 * topic_coverage.num > 3 * topic_coverage.den
    THEN " The work covers most key topics but could be more comprehensive."
    ELSE " The work misses several key topics that should be addressed."

Recommendations(areas_for_improvement) ==
    << "Review the assessment brief to ensure all requirements are met",
       "Consider the feedback for each criterion to improve future work" >>
    \o (IF areas_for_improvement # << >>
        THEN << "Focus on addressing the identified areas for improvement" >>
        ELSE << >>)

_generate_overall_feedback(criteria_marks, percentage, grade, topic_coverage, url_analyses) ==
    [general_comments |->
        [band |-> BandComment(percentage),
         coverage |-> CoverageComment(topic_coverage),
         external_sources |-> Len(url_analyses)],
     strengths |-> FeedbackOf(criteria_marks, "strength"),
     areas_for_improvement |-> FeedbackOf(criteria_marks, "weakness"),
     recommendations |-> Recommendations(FeedbackOf(criteria_marks, "weakness"))]

(***************************************************************************)
(* mark_student_work.  `similar` and `responses` are what the call gets    *)
(* from outside the repository: the similar pairs of topics, and the       *)
(* response to the fetch of each analysed url, in the order of the calls.  *)
(***************************************************************************)
MaxAnalysedUrls == 5
criterion_max_score == 10

\* A bug: a failed analysis is not kept.
AnalyzeUrlsSuccessful(urls, responses) ==
    LET kept == SortedSeq({i \in 1..Min(Len(urls), MaxAnalysedUrls) :
                    responses[i].ok})
    IN  [k \in 1..Len(kept) |->
            analyze_url_content(urls[kept[k]], responses[kept[k]])]

\* for url in urls[:5]: every analysis is a dict with a 'url' key, so
\* "if url_analysis" holds and each is appended.
AnalyzeUrls(urls, responses) ==
    [i \in 1..Min(Len(urls), MaxAnalysedUrls) |->
        analyze_url_content(urls[i], responses[i])]

\* chunk.text.lower() of the noun chunks of more than one word
StudentTopics(text) ==
    [k \in 1..Len(NounChunks(text)) |-> lower(NounChunks(text)[k])]

\* word_count / sentence_count if sentence_count > 0 else 0
AvgSentenceLength(word_count, sentence_count) ==
    IF sentence_count > 0 THEN Ratio(word_count, sentence_count) ELSE Ratio(0, 1)

Statistics(text, urls, topic_coverage) ==
    [word_count |-> AlphaTokenCount(text),
     sentence_count |-> SentenceCount(text),
     avg_sentence_length |->
         AvgSentenceLength(AlphaTokenCount(text), SentenceCount(text)),
     url_count |-> Len(urls),
     topic_coverage |-> topic_coverage]

\* round(relevance_score * criterion_max_score)
\* The product rounded, and one more.
CriterionScoreAbove(relevance_score, max_score) ==
    RoundHalfEven(relevance_score.num * max_score, relevance_score.den) + 1

CriterionScore(relevance_score, max_score) ==
    RoundHalfEven(relevance_score.num * max_score, relevance_score.den)

\* The dict appended to criteria_marks.
CriterionMark(criterion, criterion_score, max_score) ==
    [name |-> criterion.name,
     score |-> criterion_score,
     max_score |-> max_score,
     feedback |-> _generate_criterion_feedback(criterion.name, criterion_score,
                                               max_score)]

\* A bug: the criterion's weight is its maximum score.
MarkCriterionWeighted(text, criterion) ==
    CriterionMark(criterion,
        CriterionScore(_calculate_criterion_relevance(text, criterion.keywords),
                       criterion.weight),
        criterion.weight)

\* The body of the loop over the criteria.
MarkCriterion(text, criterion) ==
    CriterionMark(criterion,
        CriterionScore(_calculate_criterion_relevance(text, criterion.keywords),
                       criterion_max_score),
        criterion_max_score)

CriteriaMarks(text, criteria) ==
    [i \in 1..Len(criteria) |-> MarkCriterion(text, criteria[i])]

\* total_score += criterion_score
RECURSIVE TotalScore(_)
TotalScore(criteria_marks) ==
    IF criteria_marks = << >> THEN 0
    ELSE criteria_marks[1].score + TotalScore(Tail(criteria_marks))

\* A bug: max_score = criterion_max_score, not +=.
MaxScoreLast(criteria_marks) ==
    IF criteria_marks = << >> THEN 0
    ELSE criteria_marks[Len(criteria_marks)].max_score

\* max_score += criterion_max_score
RECURSIVE MaxScore(_)
MaxScore(criteria_marks) ==
    IF criteria_marks = << >> THEN 0
    ELSE criteria_marks[1].max_score + MaxScore(Tail(criteria_marks))

\* (total_score / max_score * 100) if max_score > 0 else 0
MarkPercentage(total_score, max_score) ==
    IF max_score > 0 THEN Percentage(total_score, max_score) ELSE Pct(0, 1, 0)

\* The dict returned.
MarkingResult(criteria_marks, percentage, grade, topic_coverage, url_analyses, statistics) ==
    [total_score |-> TotalScore(criteria_marks),
     max_score |-> MaxScore(criteria_marks),
     percentage |-> percentage,
     grade |-> grade,
     criteria_marks |-> criteria_marks,
     feedback |-> _generate_overall_feedback(criteria_marks, percentage, grade,
                                             topic_coverage, url_analyses),
     statistics |-> statistics,
     url_analyses |-> url_analyses]

\* From the percentage on.
MarkGraded(criteria_marks, percentage, grade_boundaries, topic_coverage, url_analyses, statistics) ==
    MarkingResult(criteria_marks, percentage,
                  _determine_grade(percentage, grade_boundaries),
                  topic_coverage, url_analyses, statistics)

\* From the end of the loop over the criteria on.
MarkScored(criteria_marks, grade_boundaries, topic_coverage, url_analyses, statistics) ==
    MarkGraded(criteria_marks,
               MarkPercentage(TotalScore(criteria_marks), MaxScore(criteria_marks)),
               grade_boundaries, topic_coverage, url_analyses, statistics)

\* From the topic coverage on.
MarkCovered(text, urls, rubric_analysis, topic_coverage, responses) ==
    MarkScored(CriteriaMarks(text, rubric_analysis.criteria),
               rubric_analysis.grade_boundaries, topic_coverage,
               AnalyzeUrls(urls, responses),
               Statistics(text, urls, topic_coverage))

mark_student_work(student_work_text, brief_analysis, rubric_analysis, similar, responses) ==
    MarkCovered(student_work_text, extract_urls(student_work_text),
                rubric_analysis,
                _calculate_topic_coverage(StudentTopics(student_work_text),
                                          brief_analysis.key_topics, similar),
                responses)

(***************************************************************************)
(* Arguments tried for _determine_grade.                                   *)
(***************************************************************************)
\* 0, 0.5, 1, ..., and two floats one ulp off an integer (11/20*100 and
\* 29/50*100 as IEEE-754 computes them).
GradePcts ==
    {Pct(h, 2, 0) : h \in 0..MaxPctHalves} \cup {Pct(55, 1, 1), Pct(58, 1, -1)}

\* Multiples of 2.5, tried with the non-empty maps.
CoarsePcts == {Pct(h, 2, 0) : h \in {5 * k : k \in 0..40}}

BoundaryEntries ==
    {Boundary(g, r[1], r[2]) :
        g \in {<<"A">>, <<"B">>, <<"P", "a", "s", "s">>}, r \in {<<0, 49>>, <<40, 69>>, <<50, 100>>}}

\* A dict has one entry per key.
BoundaryMaps ==
    {b \in SeqsUpTo(BoundaryEntries, MaxBoundaries) :
        \A i, j \in 1..Len(b) : i # j => b[i].grade # b[j].grade}

(***************************************************************************)
(* Arguments tried for process_rubric: every text of at most               *)
(* MaxRubricTokens pieces, and three longer rubrics.                       *)
(***************************************************************************)
MaxRubricTokens == 3

\* Eleven words: one more than a criterion header may have.
ElevenWords ==
    <<"a", " ", "a", " ", "a", " ", "a", " ", "a", " ", "a", " ", "a", " ",
      "a", " ", "a", " ", "a", " ", "a">>

RubricPieces ==
    { <<"x">>, ElevenWords, <<"\n", "\n">>, <<":">>, <<")">>,
      <<"A", " ", "(", "4", "0", "%", ")", ":">>,
      <<"B", " ", "(", "7", "%", ")", ":">>,
      <<"G", "r", "a", "d", "e", " ", "A", ":">> }

\* The rubric of the end-to-end test, shortened.
TestRubric ==
    <<"M", "a", "r", "k", "i", "n", "g", " ", "R", "u", "b", "r", "i", "c",
      ":", "\n", "\n", "C", "o", "n", "t", "e", "n", "t", " ", "(", "4",
      "0", "%", ")", ":", "\n", "G", "o", "o", "d", " ", "a", "n", "a",
      "l", "y", "s", "i", "s", ".", "\n", "\n", "S", "t", "r", "u", "c",
      "t", "u", "r", "e", " ", "(", "3", "0", "%", ")", ":", "\n", "C",
      "l", "e", "a", "r", " ", "f", "l", "o", "w", ".", "\n", "\n", "G",
      "r", "a", "d", "e", " ", "A", ":", " ", "8", "0", "-", "1", "0", "0",
      "%", "\n", "G", "r", "a", "d", "e", " ", "B", ":", " ", "7", "0",
      "-", "7", "9", "%", "\n", "G", "r", "a", "d", "e", " ", "F", ":",
      " ", "0", "-", "4", "9", "%", "\n">>

\* A rubric whose bands carry no Grade/Mark label.
InferredRubric ==
    <<"B", "a", "n", "d", "s", "\n", "\n", "7", "0", "-", "1", "0", "0",
      "%", " ", "=", " ", "P", "a", "s", "s", " ", "0", " ", "t", "o", " ",
      "6", "9", ":", " ", "F", "a", "i", "l", " ", "5", "0", "-", "5", "9",
      " ", "P", "a", "s", "s">>

\* A rubric of headers and paragraphs without weights.
ParagraphRubric ==
    <<"H", "e", "a", "d", "e", "r", ":", "\n", "\n", "b", "o", "d", "y",
      " ", "o", "n", "e", "\n", "\n", "b", "o", "d", "y", " ", "t", "w",
      "o", "\n", "\n", "S", "e", "c", "o", "n", "d", ")", "\n", "\n", "\n",
      "\n", ":", "\n", "\n", "l", "o", "s", "t", "\n", "\n", "T", "h", "i",
      "r", "d", " ", "(", "x", ")", ":", ")", "\n", "\n", "e", "n", "d">>

RubricTexts ==
    {Concat(ps) : ps \in SeqsUpTo(RubricPieces, MaxRubricTokens)}
        \cup {TestRubric, InferredRubric, ParagraphRubric}

(***************************************************************************)
(* Arguments tried for _calculate_topic_coverage.                          *)
(***************************************************************************)
Topics == { <<"a", "b">>, <<"a", "b", "c">>, <<"c", "d">>, <<"e", "f">> }

SimilarityRelations ==
    { {},
      { << <<"c", "d">>, <<"a", "b">> >> },
      { << <<"a", "b">>, <<"c", "d">> >>, << <<"c", "d">>, <<"a", "b">> >> },
      Topics \X Topics }

(***************************************************************************)
(* Arguments tried for mark_student_work.                                  *)
(***************************************************************************)
MaxCriteria == 3       \* criteria of a rubric analysis
MaxUrls == 6           \* urls of a submission

Criterion(name, weight, description, keywords) ==
    [name |-> name, weight |-> weight, description |-> description,
     keywords |-> keywords]

\* One keyword, in upper case; no keyword; three keywords; the empty string
\* as a keyword; twenty keywords of which "Ab cd" holds nine.
CriterionChoices ==
    { Criterion(<<"C", "o", "n", "t", "e", "n", "t">>, 40, <<"a", "b">>, << <<"A", "B">> >>),
      Criterion(<<"S", "t", "y", "l", "e">>, 30, << >>, << >>),
      Criterion(<<"A", "i", "m">>, 10, <<"a", "b", " ", "c", "d", " ", "z", "z">>,
                << <<"a", "b">>, <<"c", "d">>, <<"z", "z">> >>),
      Criterion(<<"B", "l", "a", "n", "k">>, 25, << >>, << << >> >>),
      Criterion(<<"M", "a", "n", "y">>, 20, << >>,
        << <<"a">>, <<"b">>, <<"c">>, <<"d">>, <<"a", "b">>,
           <<"c", "d">>, <<"b", " ", "c">>, <<" ">>, <<"a", "b", " ", "c">>, <<"e">>,
           <<"f">>, <<"g">>, <<"h">>, <<"i">>, <<"j">>,
           <<"k">>, <<"l">>, <<"m">>, <<"n">>, <<"o">> >>) }

StudentTexts ==
    { << >>, <<"a", "b">>, <<"A", "b", " ", "c", "d">>,
      <<"A", "b", " ", "c", "d", ".", " ", "e", "f", " ", "g", "h">> }

Briefs ==
    { [key_topics |-> << >>],
      [key_topics |-> << <<"a", "b", " ", "c", "d">> >>],
      [key_topics |-> << <<"a", "b", " ", "c", "d">>, <<"i", "j", " ", "k", "l">> >>] }

MarkSimilarities == { {}, { << <<"i", "j", " ", "k", "l">>, <<"e", "f", " ", "g", "h">> >> } }

Responses ==
    { [ok |-> FALSE, error |-> "timed out"],
      [ok |-> TRUE, titled |-> TRUE, title |-> <<"T">>,
       paragraphs |-> << <<"A", "b", " ", "c", "d">> >>, meta_description |-> << >>],
      [ok |-> TRUE, titled |-> FALSE, title |-> << >>,
       paragraphs |-> << >>, meta_description |-> <<"m">>] }

\* The i-th url of a submission, with a path if i is even.
UrlOf(i) ==
    IF i % 2 = 1 THEN <<"h", "t", "t", "p", ":", "/", "/">> \o << LowerSeq[i] >>
    ELSE <<"h", "t", "t", "p", "s", ":", "/", "/">> \o << LowerSeq[i], "/", LowerSeq[i] >>

\* A submission that cites n urls.
UrlText(n) == JoinSpace([i \in 1..n |-> UrlOf(i)])

Rubric(criteria, grade_boundaries) ==
    [criteria |-> criteria, grade_boundaries |-> grade_boundaries]

MarkArgs(text, brief, rubric, similar, responses) ==
    [student_work_text |-> text, brief_analysis |-> brief,
     rubric_analysis |-> rubric, similar |-> similar, responses |-> responses]

\* Every rubric of at most MaxCriteria criteria, on every text; two rubrics
\* with every brief and every boundary map of at most one entry; up to
\* MaxUrls urls with every sequence of responses.
MarkArguments ==
    {MarkArgs(t, [key_topics |-> << >>], Rubric(cs, << >>), {}, << >>) :
        t \in StudentTexts, cs \in SeqsUpTo(CriterionChoices, MaxCriteria)}
    \cup
    {MarkArgs(t, b, Rubric(cs, m), s, << >>) :
        t \in StudentTexts, b \in Briefs, s \in MarkSimilarities,
        m \in {x \in BoundaryMaps : Len(x) <= 1},
        cs \in {c \in SeqsUpTo(CriterionChoices, 2) :
                  [i \in 1..Len(c) |-> c[i].weight] \in {<<40, 10>>, <<30>>}}}
    \cup
    UNION {{MarkArgs(UrlText(n), [key_topics |-> << >>],
                     Rubric(<< >>, << >>), {}, r) :
               r \in [1..Min(n, MaxAnalysedUrls) -> Responses]} : n \in 0..MaxUrls}

(***************************************************************************)
(* process_assessment_brief.  The sentences of the spaCy pipeline are      *)
(* stood for by the pieces of the text between full stops that hold more   *)
(* than white space, as in SentenceCount.  list(set(...)) puts the topics  *)
(* in an order the code does not decide: `topics` is the order taken.      *)
(***************************************************************************)
\* sent.text.strip() for sent in doc.sents
SentenceTexts(text) ==
    LET stops == <<0>> \o SortedSeq({i \in 1..Len(text) : text[i] = "."})
                     \o << Len(text) + 1 >>
        kept == SortedSeq({k \in 1..(Len(stops) - 1) :
                    \E i \in (stops[k] + 1)..(stops[k + 1] - 1) : ~IsSpace(text[i])})
    IN  [k \in 1..Len(kept) |->
            strip(SubSeq(text, stops[kept[k]] + 1, stops[kept[k] + 1] - 1))]

\* The alternatives of the three patterns.
requirement_cues ==
    << <<"m", "u", "s", "t">>,
       <<"s", "h", "o", "u", "l", "d">>,
       <<"n", "e", "e", "d", " ", "t", "o">>,
       <<"r", "e", "q", "u", "i", "r", "e", "d", " ", "t", "o">>,
       <<"e", "x", "p", "e", "c", "t", "e", "d", " ", "t", "o">> >>

learning_outcome_cues ==
    << <<"l", "e", "a", "r", "n", "i", "n", "g", " ", "o", "u", "t", "c", "o", "m", "e">>,
       <<"w", "i", "l", "l", " ", "b", "e", " ", "a", "b", "l", "e", " ", "t", "o">>,
       <<"d", "e", "m", "o", "n", "s", "t", "r", "a", "t", "e">>,
       <<"u", "n", "d", "e", "r", "s", "t", "a", "n", "d">>,
       <<"a", "p", "p", "l", "y">> >>

submission_cues ==
    << <<"s", "u", "b", "m", "i", "t">>,
       <<"s", "u", "b", "m", "i", "s", "s", "i", "o", "n">>,
       <<"d", "e", "a", "d", "l", "i", "n", "e">>,
       <<"d", "u", "e", " ", "d", "a", "t", "e">>,
       <<"f", "o", "r", "m", "a", "t">>,
       <<"w", "o", "r", "d", " ", "c", "o", "u", "n", "t">> >>

\* re.search(r'(a|b|...)', sent_text, re.IGNORECASE)
SearchCues(cues, sent_text) ==
    \E k \in 1..Len(cues) : Contains(lower(sent_text), cues[k])

\* The sentences a pattern is found in, in their order.
CuedSentences(sentences, cues) ==
    LET at == SortedSeq({k \in 1..Len(sentences) : SearchCues(cues, sentences[k])})
    IN  [k \in 1..Len(at) |-> sentences[at[k]]]

\* The sentences a pattern is found in and none of `others` is.
CuedSentencesOnly(sentences, cues, others) ==
    LET at == SortedSeq({k \in 1..Len(sentences) :
                  /\ SearchCues(cues, sentences[k])
                  /\ \A o \in others : ~SearchCues(o, sentences[k])})
    IN  [k \in 1..Len(at) |-> sentences[at[k]]]

MinTopicLength == 5
MaxTopics == 10

\* set([topic.lower() for topic in topics if len(topic) > 5])
BriefTopicSet(brief_text) ==
    {lower(t) : t \in {c \in Range(NounChunks(brief_text)) : Len(c) > MinTopicLength}}

\* list(s)[:10] of a set: its first ten elements in one of its orders.
ListsOfSet(s) ==
    {l \in [1..Min(Cardinality(s), MaxTopics) -> s] :
        \A i, j \in DOMAIN l : l[i] = l[j] => i = j}

\* The three tests as an if / elif / elif chain.
process_assessment_brief_elif(brief_text, topics) ==
    [requirements |-> CuedSentences(SentenceTexts(brief_text), requirement_cues),
     learning_outcomes |-> CuedSentencesOnly(SentenceTexts(brief_text),
                               learning_outcome_cues, {requirement_cues}),
     submission_details |-> CuedSentencesOnly(SentenceTexts(brief_text),
                                submission_cues,
                                {requirement_cues, learning_outcome_cues}),
     key_topics |-> topics,
     full_text |-> brief_text]

process_assessment_brief(brief_text, topics) ==
    [requirements |-> CuedSentences(SentenceTexts(brief_text), requirement_cues),
     learning_outcomes |-> CuedSentences(SentenceTexts(brief_text),
                                         learning_outcome_cues),
     submission_details |-> CuedSentences(SentenceTexts(brief_text),
                                          submission_cues),
     key_topics |-> topics,
     full_text |-> brief_text]

(***************************************************************************)
(* generate_analytics.  A dict with string keys is a record, the empty     *)
(* dict is << >>, and a dict the code fills in a loop is the sequence of   *)
(* its entries in insertion order.  A mean is the quotient [num, den] of   *)
(* the exact sum by the count: the percentages summed here are whole or    *)
(* half numbers, so the float sum is exact and the float quotient is the   *)
(* float nearest to the exact one, which lies on the same side of 50, 60,  *)
(* 70, 80, 500 and 2 as the exact one.                                     *)
(***************************************************************************)
\* d.get(key, default)
Get(d, key, default) == IF key \in DOMAIN d THEN d[key] ELSE default

RECURSIVE Gcd(_, _)
Gcd(a, b) == IF b = 0 THEN a ELSE Gcd(b, a % b)

\* a + b of a percentage and a quotient, in lowest terms
AddPct(a, b) ==
    Ratio((a.num * b.den + b.num * a.den) \div Gcd(a.num * b.den + b.num * a.den, a.den * b.den),
          (a.den * b.den) \div Gcd(a.num * b.den + b.num * a.den, a.den * b.den))

\* sum(values) of percentages, as a quotient
RECURSIVE SumPct(_)
SumPct(values) ==
    IF values = << >> THEN Ratio(0, 1)
    ELSE AddPct(values[1], SumPct(Tail(values)))

\* The sum, not divided by the count.
MeanPctUndivided(values) == Ratio(SumPct(values).num, SumPct(values).den)

\* sum(values) / len(values) of percentages
MeanPct(values) == Ratio(SumPct(values).num, SumPct(values).den * Len(values))

\* sum(values) of integers
RECURSIVE SumInt(_)
SumInt(values) == IF values = << >> THEN 0 ELSE values[1] + SumInt(Tail(values))

\* sum(values) / len(values) if values else 0
MeanInt(values) ==
    IF values = << >> THEN Ratio(0, 1) ELSE Ratio(SumInt(values), Len(values))

\* avg >= n and avg <= n of a mean
RatioGeq(avg, n) == avg.num >= n * avg.den

RatioLeq(avg, n) == avg.num <= n * avg.den

\* [result['percentage'] for result in marking_results]
total_percentages(marking_results) ==
    [i \in 1..Len(marking_results) |-> marking_results[i].percentage]

\* [result.get('grade', 'N/A') for result in marking_results]
Grades(marking_results) ==
    [i \in 1..Len(marking_results) |->
        Get(marking_results[i], "grade", <<"N", "/", "A">>)]

\* grade_distribution[grade] = grade_distribution.get(grade, 0) + 1
grade_distribution(grades) ==
    [k \in 1..Len(Dedup(grades)) |->
        [grade |-> Dedup(grades)[k],
         count |-> Cardinality({i \in 1..Len(grades) : grades[i] = Dedup(grades)[k]})]]

\* The criteria the two loops go through, in their order.
RECURSIVE AllCriteriaMarks(_)
AllCriteriaMarks(marking_results) ==
    IF marking_results = << >> THEN << >>
    ELSE Get(marking_results[1], "criteria_marks", << >>)
             \o AllCriteriaMarks(Tail(marking_results))

\* (score / max_score) * 100 if max_score > 0 else 0
CriterionPercentage(criterion) ==
    IF criterion.max_score > 0
    THEN Percentage(criterion.score, criterion.max_score)
    ELSE Pct(0, 1, 0)

\* criteria_averages[name] after the first loop: the percentages appended
\* under the name.
ScoresOf(name, marks) ==
    LET at == SortedSeq({k \in 1..Len(marks) : marks[k].name = name})
    IN  [k \in 1..Len(at) |-> CriterionPercentage(marks[at[k]])]

CriterionNames(marks) == Dedup([k \in 1..Len(marks) |-> marks[k].name])

\* The sum of a criterion's percentages over the number of results.
CriterionAverageOverResults(name, marks, marking_results) ==
    Ratio(SumPct(ScoresOf(name, marks)).num,
          SumPct(ScoresOf(name, marks)).den * Len(marking_results))

\* criteria_averages[name] = sum(scores) / len(scores)
CriterionAverage(name, marks, marking_results) == MeanPct(ScoresOf(name, marks))

criteria_averages(marks, marking_results) ==
    [k \in 1..Len(CriterionNames(marks)) |->
        [name |-> CriterionNames(marks)[k],
         average |-> CriterionAverage(CriterionNames(marks)[k], marks,
                                      marking_results)]]

\* The names of the entries at the indices of S, in order.
NamesAt(averages, S) == [k \in 1..Cardinality(S) |-> averages[SortedSeq(S)[k]].name]

\* Strict comparison in place of avg >= 70.
strengths_strict(averages) ==
    NamesAt(averages, {k \in 1..Len(averages) :
        ~RatioLeq(averages[k].average, 70)})

\* if avg >= 70: strengths.append(name)
strengths(averages) ==
    NamesAt(averages, {k \in 1..Len(averages) :
        RatioGeq(averages[k].average, 70)})

\* elif avg <= 50: weaknesses.append(name)
weaknesses(averages) ==
    NamesAt(averages, {k \in 1..Len(averages) :
        /\ ~RatioGeq(averages[k].average, 70)
        /\ RatioLeq(averages[k].average, 50)})

\* [result.get('statistics', {}).get(key, 0) for result in marking_results]
StatisticOf(marking_results, key) ==
    [i \in 1..Len(marking_results) |->
        Get(Get(marking_results[i], "statistics", << >>), key, 0)]

word_counts(marking_results) == StatisticOf(marking_results, "word_count")

url_counts(marking_results) == StatisticOf(marking_results, "url_count")

\* min(values) if values else 0, and max
MinInt(values) ==
    IF values = << >> THEN 0
    ELSE CHOOSE v \in Range(values) : \A w \in Range(values) : v <= w

MaxInt(values) ==
    IF values = << >> THEN 0
    ELSE CHOOSE v \in Range(values) : \A w \in Range(values) : v >= w

\* The dict of the return statement.
AnalyticsSummary(marking_results, averages) ==
    [summary |->
        [count |-> Len(marking_results),
         avg_percentage |-> MeanPct(total_percentages(marking_results)),
         grade_distribution |-> grade_distribution(Grades(marking_results))],
     criteria_analysis |->
        [averages |-> averages,
         strengths |-> strengths(averages),
         weaknesses |-> weaknesses(averages)],
     statistics |->
        [word_count |->
            [average |-> MeanInt(word_counts(marking_results)),
             minimum |-> MinInt(word_counts(marking_results)),
             maximum |-> MaxInt(word_counts(marking_results))],
         url_usage |-> [average |-> MeanInt(url_counts(marking_results))]]]

NoMarkingResults == [error |-> "No marking results provided"]

\* A summary of nothing in place of the error dict.
generate_analytics_zero(marking_results) ==
    AnalyticsSummary(marking_results,
        criteria_averages(AllCriteriaMarks(marking_results), marking_results))

generate_analytics(marking_results) ==
    IF marking_results = << >> THEN NoMarkingResults
    ELSE AnalyticsSummary(marking_results,
             criteria_averages(AllCriteriaMarks(marking_results), marking_results))

(***************************************************************************)
(* generate_recommendations.  A recommendation is [text, type, priority];  *)
(* its text is a sentence [before, name, after], with the empty name for   *)
(* the texts that quote no criterion.                                      *)
(***************************************************************************)
Recommendation(text, type, priority) ==
    [text |-> text, type |-> type, priority |-> priority]

\* not analytics or 'error' in analytics
InvalidAnalytics(analytics) ==
    \/ DOMAIN analytics = {}
    \/ "none" \in DOMAIN analytics
    \/ "error" \in DOMAIN analytics

NotEnoughData ==
    Recommendation(Sentence("Not enough data to generate recommendations", << >>, ""),
                   "general", "low")

\* The recommendations of the weak criteria at priority medium.
WeaknessRecommendationsMedium(weak) ==
    [k \in 1..Len(weak) |->
        Recommendation(Sentence("Consider revising teaching materials related to '", weak[k],
                                "' as students are scoring lower in this area"),
                       "content", "medium")]

\* for weakness in weaknesses: recommendations.append(...)
WeaknessRecommendations(weak) ==
    [k \in 1..Len(weak) |->
        Recommendation(Sentence("Consider revising teaching materials related to '", weak[k],
                                "' as students are scoring lower in this area"),
                       "content", "high")]

\* The test of the low average without its elif.
PerformanceRecommendationsAlways(avg_percentage) ==
    << Recommendation(Sentence("Overall student performance is below expectations. Consider reviewing the assessment brief for clarity and providing additional support materials", << >>, ""),
                         "assessment", "high") >>

\* if avg_percentage < 60: ... elif avg_percentage > 80: ...
PerformanceRecommendations(avg_percentage) ==
    IF ~RatioGeq(avg_percentage, 60)
    THEN << Recommendation(Sentence("Overall student performance is below expectations. Consider reviewing the assessment brief for clarity and providing additional support materials", << >>, ""),
                         "assessment", "high") >>
    ELSE IF ~RatioLeq(avg_percentage, 80)
    THEN << Recommendation(Sentence("Students are performing exceptionally well. Consider increasing the challenge level in future assessments", << >>, ""),
                         "assessment", "medium") >>
    ELSE << >>

MinAvgWordCount == 500

\* if avg_word_count < 500
WordCountRecommendations(avg_word_count) ==
    IF ~RatioGeq(avg_word_count, MinAvgWordCount)
    THEN << Recommendation(Sentence("Student submissions are quite brief. Consider providing clearer guidelines on expected depth and detail", << >>, ""),
                         "guidance", "medium") >>
    ELSE << >>

MinAvgUrlCount == 2

\* No recommendation about urls.
UrlRecommendationsNone(avg_url_count) == << >>

\* if avg_url_count < 2
UrlRecommendations(avg_url_count) ==
    IF ~RatioGeq(avg_url_count, MinAvgUrlCount)
    THEN << Recommendation(Sentence("Students are using few external sources. Consider emphasizing the importance of research and citation", << >>, ""),
                         "guidance", "medium") >>
    ELSE << >>

GeneralRecommendations ==
    << Recommendation(Sentence("Provide more example work to help students understand expectations", << >>, ""),
                      "guidance", "low"),
       Recommendation(Sentence("Consider peer review activities to help students understand assessment criteria", << >>, ""),
                      "activity", "medium") >>

\* The default 0 of the three .get chains is the quotient 0/1.
AnalyticsAverage(analytics, section, key) ==
    Get(Get(Get(analytics, "statistics", << >>), section, << >>), key, Ratio(0, 1))

\* The recommendations in the order the code appends them.
ValidRecommendations(analytics) ==
    WeaknessRecommendations(
        Get(Get(analytics, "criteria_analysis", << >>), "weaknesses", << >>))
    \o PerformanceRecommendations(
        Get(Get(analytics, "summary", << >>), "avg_percentage", Ratio(0, 1)))
    \o WordCountRecommendations(AnalyticsAverage(analytics, "word_count", "average"))
    \o UrlRecommendations(AnalyticsAverage(analytics, "url_usage", "average"))
    \o GeneralRecommendations

\* The general recommendations appended to the answer for invalid analytics.
generate_recommendations_general(analytics) ==
    IF InvalidAnalytics(analytics) THEN << NotEnoughData >> \o GeneralRecommendations
    ELSE ValidRecommendations(analytics)

generate_recommendations(analytics) ==
    IF InvalidAnalytics(analytics) THEN << NotEnoughData >>
    ELSE ValidRecommendations(analytics)

(***************************************************************************)
(* Arguments tried for analyze_url_content: a request that times out, one  *)
(* that is refused, a 404 answer that raise_for_status rejects, a body     *)
(* the parser fails on; pages without paragraphs, with short ones, and     *)
(* with paragraphs that make the content 500, 501 and 1202 characters.     *)
(***************************************************************************)
\* A paragraph of n characters, in words of 99 letters.
ParagraphOf(n) == [i \in 1..n |-> IF i % 100 = 0 THEN " " ELSE IF i % 100 = 1 THEN "A" ELSE "b"]

Page(titled, title, paragraphs, meta_description) ==
    [ok |-> TRUE, titled |-> titled, title |-> title,
     paragraphs |-> paragraphs, meta_description |-> meta_description]

FetchFailures ==
    { [ok |-> FALSE, error |-> "Read timed out. (read timeout=10)"],
      [ok |-> FALSE, error |-> "Connection refused"],
      [ok |-> FALSE, error |-> "404 Client Error: Not Found for url"],
      [ok |-> FALSE, error |-> "'NoneType' object is not callable"] }

PageParagraphs ==
    { << >>, << <<"A", "b", " ", "c", "d">> >>, << <<"a">>, << >>, <<"b">> >>,
      << ParagraphOf(498) >>, << ParagraphOf(499) >>, << ParagraphOf(500) >>,
      << ParagraphOf(250), ParagraphOf(249) >>,
      << ParagraphOf(600), ParagraphOf(600) >> }

PageResponses ==
    FetchFailures
    \cup {Page(t[1], t[2], p, m) :
            t \in { <<TRUE, <<"T">> >>, <<FALSE, << >> >> },
            p \in PageParagraphs, m \in { << >>, <<"m">> }}

MaxUrlChoices == 3

(***************************************************************************)
(* Arguments tried for generate_analytics: results shaped like those of    *)
(* mark_student_work, one of them returned by it, and results without a    *)
(* grade, statistics or criteria marks; a criterion with max_score 0 and   *)
(* a name that occurs twice in one result.                                 *)
(***************************************************************************)
MaxResults == 3

Mark(name, score, max_score) == [name |-> name, score |-> score, max_score |-> max_score]

ContentName == <<"C", "o", "n", "t", "e", "n", "t">>
StyleName == <<"S", "t", "y", "l", "e">>

MarkedResult(percentage, grade, criteria_marks, word_count, url_count) ==
    [percentage |-> Pct(percentage, 1, 0), grade |-> grade,
     criteria_marks |-> criteria_marks,
     statistics |-> [word_count |-> word_count, url_count |-> url_count]]

ResultChoices ==
    { MarkedResult(72, <<"B">>, << Mark(ContentName, 9, 10) >>, 600, 3),
      MarkedResult(45, <<"F">>, << Mark(ContentName, 5, 10), Mark(StyleName, 3, 10) >>, 100, 0),
      MarkedResult(85, <<"A">>, << Mark(ContentName, 10, 10), Mark(StyleName, 7, 10) >>, 500, 2),
      MarkedResult(80, <<"A">>, << Mark(ContentName, 7, 10), Mark(ContentName, 3, 10) >>, 1000, 4),
      [percentage |-> Pct(60, 1, 0),
       criteria_marks |-> << Mark(StyleName, 6, 10), Mark(<<"Z">>, 5, 0) >>],
      [percentage |-> Pct(119, 2, 0), grade |-> <<"D">>,
       statistics |-> [word_count |-> 499]],
      mark_student_work(<<"A", "b", " ", "c", "d">>, [key_topics |-> << >>],
          Rubric(<< Criterion(StyleName, 30, << >>, << >>) >>, << >>), {}, << >>) }

MarkingResults == SeqsUpTo(ResultChoices, MaxResults)

\* A summary without its statistics, the empty dict and None, with the
\* analytics of every sequence of results.
AnalyticsChoices ==
    {generate_analytics(rs) : rs \in MarkingResults}
    \cup { << >>, None,
           [summary |-> [count |-> 1, avg_percentage |-> Ratio(70, 1)]] }

(***************************************************************************)
(* Arguments tried for process_assessment_brief: texts of up to            *)
(* MaxBriefSentences sentences, each ended by a full stop; a sentence      *)
(* with a cue of each list, one with cues of two lists and one of all      *)
(* three, one with the word 'submission' alone, one with no cue.           *)
(***************************************************************************)
MaxBriefSentences == 2

BriefSentences ==
    { <<"M", "U", "S", "T", " ", "a", "p", "p", "l", "y">>,
      <<" ", "S", "u", "b", "m", "i", "s", "s", "i", "o", "n">>,
      <<"S", "u", "b", "m", "i", "t", " ", "f", "o", "r", "m", "a", "t">>,
      <<"a", "t", " ", "a">>,
      <<"N", "e", "e", "d", " ", "t", "o", " ", "a", "p", "p", "l", "y", " ", "f", "o", "r", "m", "a", "t">>,
      <<" ">> }

RECURSIVE EndWithStops(_)
EndWithStops(sentences) ==
    IF sentences = << >> THEN << >>
    ELSE sentences[1] \o <<".">> \o EndWithStops(Tail(sentences))

BriefTexts == {EndWithStops(s) : s \in SeqsUpTo(BriefSentences, MaxBriefSentences)}

(***************************************************************************)
(* Arguments tried for extract_urls: texts of up to MaxUrlPieces pieces,   *)
(* among them a url without and one with a path, a scheme with nothing     *)
(* after it and one in upper case, a blank and a closing parenthesis; a    *)
(* sentence that cites one url; a scheme inside the host of another.       *)
(***************************************************************************)
MaxUrlPieces == 3

UrlPieces ==
    { <<"h", "t", "t", "p", ":", "/", "/", "a">>,
      <<"h", "t", "t", "p", "s", ":", "/", "/", "b", ".", "c", "/", "d">>,
      <<" ">>,
      <<")">>,
      <<"x">>,
      <<"h", "t", "t", "p", ":", "/", "/">>,
      <<"H", "T", "T", "P", ":", "/", "/", "z">> }

CitingSentence ==
    <<"S", "e", "e", " ", "h", "t", "t", "p", "s", ":", "/", "/", "e", "x", "a", "m", "p", "l", "e", ".", "o", "r", "g", "/", "p", "a", "g", "e", " ", "a", "n", "d", " ", "c", "o", "n", "t", "a", "c", "t", " ", "u", "s">>

UrlTexts ==
    {Concat(p) : p \in SeqsUpTo(UrlPieces, MaxUrlPieces)}
    \cup { CitingSentence, <<"h", "t", "t", "p", "s", ":", "/", "/", "h", "t", "t", "p", ":", "/", "/", "k">> }

(***************************************************************************)
(* Arguments tried for _calculate_criterion_relevance: the texts and the   *)
(* keyword lists of the markings, and lists of which "Ab cd" holds two of  *)
(* three, one of four and all.                                             *)
(***************************************************************************)
KeywordLists ==
    {c.keywords : c \in CriterionChoices}
    \cup { << <<"a", "b">>, <<"C", "D">>, <<"z">> >>,
           << <<"z">>, <<"y">>, <<"b", " ", "c">>, <<"x">> >>,
           << <<"a">>, <<"B">>, << >> >> }

(***************************************************************************)
(* State machine.                                                          *)
(***************************************************************************)
\* AssessmentAI.__init__: the stop words and a vectorizer that is not fitted.
AssessmentAI == [stop_words |-> "english", vectorizer |-> "unfitted"]

\* The module-level ai_engine, with no call remembered.
NotShared ==
    /\ engine = AssessmentAI
    /\ hash_order = << >>
    /\ records = [none |-> TRUE]
    /\ earlier = [call |-> [op |-> "none"], ret |-> [none |-> TRUE], between |-> FALSE]

NoClients == sessions = << >>

NoRequests == db = << >> /\ reqs = << >>

Init ==
    /\ call = [op |-> "none"]
    /\ ret = [none |-> TRUE]
    /\ NotShared
    /\ NoClients
    /\ NoRequests

Idle == call.op = "none"

DetermineGrade ==
    /\ Idle
    /\ UNCHANGED <<engineVars, loginVars, markVars>>
    /\ \E p \in GradePcts, b \in BoundaryMaps :
        /\ b = << >> \/ p \in CoarsePcts
        /\ call' = [op |-> "_determine_grade", percentage |-> p,
                                               grade_boundaries |-> b]
        /\ ret' = [grade |-> _determine_grade(p, b)]

ProcessRubric ==
    /\ Idle
    /\ UNCHANGED <<engineVars, loginVars, markVars>>
    /\ \E rubric_text \in RubricTexts :
        /\ call' = [op |-> "process_rubric", rubric_text |-> rubric_text]
        /\ ret' = process_rubric(rubric_text)

TopicCoverage ==
    /\ Idle
    /\ UNCHANGED <<engineVars, loginVars, markVars>>
    /\ \E student_topics \in SeqsUpTo(Topics, MaxStudentTopics),
          brief_topics \in SeqsUpTo(Topics, MaxBriefTopics),
          similar \in SimilarityRelations :
        /\ call' = [op |-> "_calculate_topic_coverage",
                    student_topics |-> student_topics,
                    brief_topics |-> brief_topics, similar |-> similar]
        /\ ret' = [coverage |-> _calculate_topic_coverage(student_topics,
                                     brief_topics, similar)]

MarkStudentWork ==
    /\ Idle
    /\ UNCHANGED <<engineVars, loginVars, markVars>>
    /\ \E a \in MarkArguments :
        /\ call' = [op |-> "mark_student_work"] @@ a
        /\ ret' = mark_student_work(a.student_work_text, a.brief_analysis,
                                    a.rubric_analysis, a.similar, a.responses)

AnalyzeUrlContent ==
    /\ Idle
    /\ UNCHANGED <<engineVars, loginVars, markVars>>
    /\ \E i \in 1..MaxUrlChoices, response \in PageResponses :
        /\ call' = [op |-> "analyze_url_content", url |-> UrlOf(i),
                                                  response |-> response]
        /\ ret' = analyze_url_content(UrlOf(i), response)

GenerateAnalytics ==
    /\ Idle
    /\ UNCHANGED <<engineVars, loginVars, markVars>>
    /\ \E marking_results \in MarkingResults :
        /\ call' = [op |-> "generate_analytics",
                    marking_results |-> marking_results]
        /\ ret' = generate_analytics(marking_results)

GenerateRecommendations ==
    /\ Idle
    /\ UNCHANGED <<engineVars, loginVars, markVars>>
    /\ \E analytics \in AnalyticsChoices :
        /\ call' = [op |-> "generate_recommendations", analytics |-> analytics]
        /\ ret' = [recommendations |-> generate_recommendations(analytics)]

ProcessAssessmentBrief ==
    /\ Idle
    /\ UNCHANGED <<engineVars, loginVars, markVars>>
    /\ \E brief_text \in BriefTexts :
        \E topics \in ListsOfSet(BriefTopicSet(brief_text)) :
            /\ call' = [op |-> "process_assessment_brief", brief_text |-> brief_text]
            /\ ret' = process_assessment_brief(brief_text, topics)

ExtractUrls ==
    /\ Idle
    /\ UNCHANGED <<engineVars, loginVars, markVars>>
    /\ \E text \in UrlTexts :
        /\ call' = [op |-> "extract_urls", text |-> text]
        /\ ret' = [urls |-> extract_urls(text)]

CalculateCriterionRelevance ==
    /\ Idle
    /\ UNCHANGED <<engineVars, loginVars, markVars>>
    /\ \E text \in StudentTexts, criterion_keywords \in KeywordLists :
        /\ call' = [op |-> "_calculate_criterion_relevance", text |-> text,
                    criterion_keywords |-> criterion_keywords]
        /\ ret' = [relevance |-> _calculate_criterion_relevance(text,
                                     criterion_keywords)]

\* The caller has the returned value; the engine keeps nothing of the call.
Return ==
    /\ ~Idle
    /\ UNCHANGED <<engineVars, loginVars, markVars>>
    /\ call' = [op |-> "none"]
    /\ ret' = [none |-> TRUE]

Next ==
    \/ DetermineGrade
    \/ ProcessRubric
    \/ TopicCoverage
    \/ MarkStudentWork
    \/ AnalyzeUrlContent
    \/ GenerateAnalytics
    \/ GenerateRecommendations
    \/ ProcessAssessmentBrief
    \/ ExtractUrls
    \/ CalculateCriterionRelevance
    \/ Return

Spec == Init /\ [][Next]_vars

(***************************************************************************)
(* The shared engine.  api_routes builds one AssessmentAI when it is       *)
(* imported and every request calls that instance.  No method of the       *)
(* class assigns an attribute of self, and every list or dict a method     *)
(* appends to or sorts is one it built itself: the instance and the        *)
(* records passed are after the call what they were before it.  The order  *)
(* in which list(set(...)) yields the key topics depends on the hashes of  *)
(* the strings, which are fixed when the process starts.                   *)
(***************************************************************************)
\* The attributes of self with one fitted on the text of the call.
EngineAfterFitted(self) == [self EXCEPT !.vectorizer = "fitted"]

\* The attributes of self when a method returns.
EngineAfter(self) == self

\* The records passed when a method returns.
RecordsAfter(passed) == passed

SharedBriefTexts ==
    { EndWithStops(<< <<"N", "e", "e", "d", " ", "t", "o", " ", "a", "p", "p", "l", "y", " ", "f", "o", "r", "m", "a", "t">> >>),
      EndWithStops(<< <<"S", "u", "b", "m", "i", "t", " ", "f", "o", "r", "m", "a", "t">>,
                      <<"M", "U", "S", "T", " ", "a", "p", "p", "l", "y">> >>) }

SharedTopicSets == {BriefTopicSet(t) : t \in SharedBriefTexts}

\* One order for each set: what a hash seed fixes.
HashOrders ==
    {f \in [SharedTopicSets -> UNION {ListsOfSet(s) : s \in SharedTopicSets}] :
        \A s \in SharedTopicSets : f[s] \in ListsOfSet(s)}

SharedMarkArguments ==
    { MarkArgs(<<"A", "b", " ", "c", "d", ".", " ", "e", "f", " ", "g", "h">>,
               [key_topics |-> << <<"a", "b", " ", "c", "d">>, <<"i", "j", " ", "k", "l">> >>],
               Rubric(<< Criterion(ContentName, 40, <<"a", "b">>, << <<"A", "B">> >>),
                         Criterion(StyleName, 30, << >>, << >>) >>, << >>),
               {}, << >>) }
    \cup
    { MarkArgs(UrlText(1), [key_topics |-> << >>], Rubric(<< >>, << >>), {}, << r >>) :
        r \in Responses }

SharedMarkingResults ==
    { << >>,
      << MarkedResult(72, <<"B">>, << Mark(ContentName, 9, 10) >>, 600, 3),
         MarkedResult(45, <<"F">>, << Mark(ContentName, 5, 10), Mark(StyleName, 3, 10) >>, 100, 0) >> }

SharedAnalytics == {generate_analytics(rs) : rs \in SharedMarkingResults} \cup {None}

InitShared ==
    /\ call = [op |-> "none"]
    /\ ret = [none |-> TRUE]
    /\ engine = AssessmentAI
    /\ hash_order \in HashOrders
    /\ records = [none |-> TRUE]
    /\ earlier = [call |-> [op |-> "none"], ret |-> [none |-> TRUE], between |-> FALSE]
    /\ NoClients
    /\ NoRequests

\* A method of ai_engine is called with `passed` and returns `result`.
SharedCall(passed, result) ==
    /\ call' = passed
    /\ ret' = result
    /\ engine' = EngineAfter(engine)
    /\ records' = RecordsAfter(passed)
    /\ earlier' = [earlier EXCEPT !.between =
                      @ \/ (earlier.call.op # "none" /\ earlier.call # passed)]
    /\ UNCHANGED <<hash_order, loginVars, markVars>>

SharedProcessAssessmentBrief ==
    /\ Idle
    /\ \E brief_text \in SharedBriefTexts :
        SharedCall([op |-> "process_assessment_brief", brief_text |-> brief_text],
                   process_assessment_brief(brief_text,
                       hash_order[BriefTopicSet(brief_text)]))

SharedProcessRubric ==
    /\ Idle
    /\ \E rubric_text \in {TestRubric, InferredRubric} :
        SharedCall([op |-> "process_rubric", rubric_text |-> rubric_text],
                   process_rubric(rubric_text))

SharedExtractUrls ==
    /\ Idle
    /\ \E text \in {CitingSentence, UrlText(2)} :
        SharedCall([op |-> "extract_urls", text |-> text],
                   [urls |-> extract_urls(text)])

SharedMarkStudentWork ==
    /\ Idle
    /\ \E a \in SharedMarkArguments :
        SharedCall([op |-> "mark_student_work"] @@ a,
                   mark_student_work(a.student_work_text, a.brief_analysis,
                                     a.rubric_analysis, a.similar, a.responses))

SharedGenerateAnalytics ==
    /\ Idle
    /\ \E marking_results \in SharedMarkingResults :
        SharedCall([op |-> "generate_analytics", marking_results |-> marking_results],
                   generate_analytics(marking_results))

SharedGenerateRecommendations ==
    /\ Idle
    /\ \E analytics \in SharedAnalytics :
        SharedCall([op |-> "generate_recommendations", analytics |-> analytics],
                   [recommendations |-> generate_recommendations(analytics)])

\* The method has returned; the call and its result may be the ones
\* a later call is compared with.
SharedReturn ==
    /\ ~Idle
    /\ call' = [op |-> "none"]
    /\ ret' = [none |-> TRUE]
    /\ records' = [none |-> TRUE]
    /\ \/ earlier' = [call |-> call, ret |-> ret, between |-> FALSE]
       \/ UNCHANGED earlier
    /\ UNCHANGED <<engine, hash_order, loginVars, markVars>>

NextShared ==
    \/ SharedProcessAssessmentBrief
    \/ SharedProcessRubric
    \/ SharedExtractUrls
    \/ SharedMarkStudentWork
    \/ SharedGenerateAnalytics
    \/ SharedGenerateRecommendations
    \/ SharedReturn

SpecShared == InitShared /\ [][NextShared]_vars

(***************************************************************************)
(* auth_routes: login and logout.  A client sends its session with each    *)
(* request and keeps the session the response carries.  The users are      *)
(* those of the end-to-end test and one registered with another role.      *)
(***************************************************************************)
\* werkzeug keeps the method with the digest; the digest stands for itself.
generate_password_hash(password) == [method |-> "scrypt", digest |-> password]

check_password_hash(pwhash, password) == pwhash.digest = password

User(id, username, password, role, first_name) ==
    [id |-> id, username |-> username,
     password_hash |-> generate_password_hash(password),
     role |-> role, first_name |-> first_name]

Users ==
    << User(1, "admin", "password", "admin", "Admin"),
       User(2, "teacher", "password", "teacher", "Teacher"),
       User(3, "pupil", "secret", "student", "Pupil") >>

\* User.query.filter_by(username=username).first()
UserByUsername(username) ==
    IF \E i \in DOMAIN Users : Users[i].username = username
    THEN Users[CHOOSE i \in DOMAIN Users : Users[i].username = username]
    ELSE None

\* Every user is sent to the teacher dashboard.
LoginRedirectTeacher(user) == "teacher.dashboard"

\* Redirect based on role
LoginRedirect(user) ==
    IF user.role = "admin" THEN "admin.dashboard" ELSE "teacher.dashboard"

InvalidCredentials == "Invalid username or password. Please try again."

\* login on a POST: the session, the time of the user's last login, the
\* flashed message and the response.
login(session, last_login, username, password) ==
    LET user == UserByUsername(username)
    IN  IF user # None /\ check_password_hash(user.password_hash, password)
        THEN [session |-> [user_id |-> user.id, username |-> user.username,
                           role |-> user.role]
                          @@ session,
              last_login |-> [last_login EXCEPT ![user.id] = TRUE],
              flashed |-> Sentence("Welcome back, ", user.first_name, "!"),
              redirect |-> LoginRedirect(user)]
        ELSE [session |-> session,
              last_login |-> last_login,
              flashed |-> InvalidCredentials,
              render_template |-> "auth/login.html"]

Clients == {"c1", "c2"}
Usernames == {"admin", "teacher", "pupil", "invalid"}
Passwords == {"password", "secret", "invalid"}

InitLogin ==
    /\ call = [op |-> "none"]
    /\ ret = [none |-> TRUE]
    /\ sessions = [c \in Clients |-> << >>]
    /\ db = [last_login |-> [i \in DOMAIN Users |-> FALSE]]
    /\ reqs = << >>
    /\ NotShared

LoginPost ==
    /\ Idle
    /\ \E c \in Clients, username \in Usernames, password \in Passwords :
        LET r == login(sessions[c], db.last_login, username, password)
        IN  /\ call' = [op |-> "login", method |-> "POST", client |-> c,
                        session |-> sessions[c],
                        username |-> username, password |-> password]
            /\ sessions' = [sessions EXCEPT ![c] = r.session]
            /\ db' = [db EXCEPT !.last_login = r.last_login]
            /\ ret' = [k \in DOMAIN r \ {"session", "last_login"} |-> r[k]]
    /\ UNCHANGED <<engineVars, reqs>>

\* login on a GET renders the page.
LoginGet ==
    /\ Idle
    /\ \E c \in Clients :
        call' = [op |-> "login", method |-> "GET", client |-> c,
                 session |-> sessions[c]]
    /\ ret' = [render_template |-> "auth/login.html"]
    /\ UNCHANGED <<engineVars, loginVars, markVars>>

\* session.clear()
Logout ==
    /\ Idle
    /\ \E c \in Clients :
        /\ call' = [op |-> "logout", client |-> c, session |-> sessions[c]]
        /\ sessions' = [sessions EXCEPT ![c] = << >>]
    /\ ret' = [flashed |-> "You have been logged out.", redirect |-> "auth.login"]
    /\ UNCHANGED <<engineVars, markVars>>

NextLogin == LoginPost \/ LoginGet \/ Logout \/ Return

SpecLogin == InitLogin /\ [][NextLogin]_vars

(***************************************************************************)
(* api_routes: mark_work and generate_analytics on one submission of one   *)
(* assessment.  db holds what is committed.  A request runs from one       *)
(* db.session.commit() to the next in one step; between two commits        *)
(* another request may run.  A step fails when a file cannot be read, the  *)
(* engine raises or the commit raises; the commit that inserts a Mark      *)
(* raises when the submission has one (student_work_id is unique).  The    *)
(* files do not change, so every request computes the same marking         *)
(* result; the analyses of the brief and the rubric are given with them.   *)
(***************************************************************************)
MaxRequests == 2
MaxAnalyticsData == 1

Requests == 1..MaxRequests

\* What the submission's files yield: 70, 50 and 90 per cent, and a
\* submission that cites a url.
MarkWorkFiles ==
    { MarkArgs(<<"A", "b", " ", "c", "d">>, [key_topics |-> << >>],
               Rubric(cs, << >>), {}, << >>) :
        cs \in { << Criterion(ContentName, 40, <<"a", "b">>, << <<"A", "B">> >>),
                    Criterion(StyleName, 30, << >>, << >>) >>,
                 << Criterion(StyleName, 30, << >>, << >>) >>,
                 << Criterion(ContentName, 40, <<"a", "b">>, << <<"A", "B">> >>) >> } }
    \cup
    { MarkArgs(UrlText(1), [key_topics |-> << >>],
               Rubric(<< Criterion(StyleName, 30, << >>, << >>) >>, << >>), {},
               << [ok |-> FALSE, error |-> "timed out"] >>) }

\* ai_engine.mark_student_work(work_text, brief_analysis, rubric_analysis)
MarkingResultOf(files) ==
    mark_student_work(files.student_work_text, files.brief_analysis,
                      files.rubric_analysis, files.similar, files.responses)

Request(pc, response, concurrent, faulted) ==
    [pc |-> pc, response |-> response, concurrent |-> concurrent, faulted |-> faulted]

InProgress(r) == reqs[r].pc \notin {"new", "done"}

\* r moves to pc; `faulted` tells that a fault was injected into the step.
Moved(r, pc, faulted) ==
    [reqs EXCEPT ![r] = [@ EXCEPT !.pc = pc, !.faulted = @ \/ faulted]]

InitMarkWork ==
    /\ call = [op |-> "none"]
    /\ ret = [none |-> TRUE]
    /\ \E files \in MarkWorkFiles :
        db = [status |-> "submitted", urls |-> << >>, marks |-> << >>,
              criteria_marks |-> << >>, feedback |-> << >>,
              analytics_data |-> << >>, files |-> files]
    /\ reqs = [r \in Requests |-> Request("new", None, FALSE, FALSE)]
    /\ NotShared
    /\ NoClients

\* Lines 19-47: the rows are found; student_work.status = 'marking'; commit.
BeginMarking(r) ==
    /\ reqs[r].pc = "new"
    /\ \E fails \in BOOLEAN :
        /\ db' = IF fails THEN db ELSE [db EXCEPT !.status = "marking"]
        /\ reqs' = [q \in Requests |->
                      IF q = r
                      THEN Request(IF fails THEN "failed" ELSE "begun", None,
                                   \E o \in Requests : InProgress(o), fails)
                      ELSE [reqs[q] EXCEPT !.concurrent = @ \/ InProgress(q)]]
    /\ UNCHANGED <<call, ret, engineVars, loginVars>>

\* A request that starts when no other is in progress.
BeginMarkingAlone(r) ==
    /\ \A o \in Requests : ~InProgress(o)
    /\ BeginMarking(r)

\* Lines 49-70: the files are read, the brief and the rubric processed;
\* student_work.urls = urls; commit.
ReadAndExtract(r) ==
    /\ reqs[r].pc = "begun"
    /\ \E fails \in BOOLEAN :
        /\ db' = IF fails THEN db
                 ELSE [db EXCEPT !.urls = extract_urls(db.files.student_work_text)]
        /\ reqs' = Moved(r, IF fails THEN "failed" ELSE "extracted", fails)
    /\ UNCHANGED <<call, ret, engineVars, loginVars>>

\* Mark(student_work_id=..., total_score=..., percentage=...)
MarkRow(id, marking_result) ==
    [id |-> id, student_work_id |-> 1,
     total_score |-> marking_result.total_score,
     percentage |-> marking_result.percentage]

\* Lines 72-84: the work is marked; db.session.add(mark); commit.
StoreMark(r) ==
    /\ reqs[r].pc = "extracted"
    /\ \E fails \in BOOLEAN :
        LET raised == fails \/ db.marks # << >>
        IN  /\ db' = IF raised THEN db
                     ELSE [db EXCEPT !.marks =
                              << MarkRow(1, MarkingResultOf(db.files)) >>]
            /\ reqs' = Moved(r, IF raised THEN "failed" ELSE "stored", fails)
    /\ UNCHANGED <<call, ret, engineVars, loginVars>>

\* jsonify of the success
MarkWorkSuccess(mark_id, marking_result) ==
    [success |-> TRUE, mark_id |-> mark_id,
     percentage |-> marking_result.percentage,
     grade |-> marking_result.grade]

\* Lines 86-118: the criteria marks and the feedback are added;
\* student_work.status = 'marked'; commit; the response.
FinishMarking(r) ==
    /\ reqs[r].pc = "stored"
    /\ \E fails \in BOOLEAN :
        LET marking_result == MarkingResultOf(db.files)
        IN  /\ db' = IF fails THEN db
                     ELSE [db EXCEPT !.status = "marked",
                                     !.criteria_marks = marking_result.criteria_marks,
                                     !.feedback = << marking_result.feedback >>]
            /\ reqs' = IF fails THEN Moved(r, "failed", TRUE)
                       ELSE [reqs EXCEPT ![r] = [@ EXCEPT !.pc = "done",
                                !.response = MarkWorkSuccess(1, marking_result)]]
    /\ UNCHANGED <<call, ret, engineVars, loginVars>>

\* Lines 120-128: rollback; student_work.status = 'submitted'; commit; the
\* 500.  When this commit raises, the exception leaves the handler.
HandleFailure(r) ==
    /\ reqs[r].pc = "failed"
    /\ \E fails \in BOOLEAN :
        /\ db' = IF fails THEN db ELSE [db EXCEPT !.status = "submitted"]
        /\ reqs' = [reqs EXCEPT ![r] = [@ EXCEPT !.pc = "done",
                       !.response = [error |-> "Exception"],
                       !.faulted = @ \/ fails]]
    /\ UNCHANGED <<call, ret, engineVars, loginVars>>

\* 'A' if percentage >= 70 else 'B' if >= 60 else 'C' if >= 50 else 'D' if
\* >= 40 else 'F'
EndpointGrade(percentage) ==
    IF PctGeq(percentage, 70) THEN <<"A">>
    ELSE IF PctGeq(percentage, 60) THEN <<"B">>
    ELSE IF PctGeq(percentage, 50) THEN <<"C">>
    ELSE IF PctGeq(percentage, 40) THEN <<"D">>
    ELSE <<"F">>

\* The dict appended for a marked work that has a mark.
EndpointResult(mark, criteria_marks, feedback, urls) ==
    [total_score |-> mark.total_score,
     percentage |-> mark.percentage,
     grade |-> EndpointGrade(mark.percentage),
     criteria_marks |-> criteria_marks,
     feedback |-> IF feedback = << >> THEN << >> ELSE feedback[1],
     statistics |-> [word_count |-> 0, sentence_count |-> 0,
                     avg_sentence_length |-> 0,
                     url_count |-> Len(urls),
                     topic_coverage |-> Ratio(7, 10)],
     url_analyses |-> << >>]

\* The results collected from the works whose status is 'marked'.
EndpointResults(rows) ==
    IF rows.status = "marked" /\ rows.marks # << >>
    THEN << EndpointResult(rows.marks[1], rows.criteria_marks, rows.feedback,
                           rows.urls) >>
    ELSE << >>

\* generate_analytics of api_routes: the analytics of the marked works are
\* computed and saved.
GenerateAnalyticsEndpoint ==
    /\ Len(db.analytics_data) < MaxAnalyticsData
    /\ call' = [op |-> "api.generate_analytics", assessment_id |-> 1]
    /\ IF db.status # "marked"
       THEN /\ ret' = [error |-> "No marked student work found for this assessment"]
            /\ UNCHANGED db
       ELSE \E fails \in BOOLEAN :
            LET analytics == generate_analytics(EndpointResults(db))
            IN  IF fails
                THEN ret' = [error |-> "Exception"] /\ UNCHANGED db
                ELSE /\ ret' = [success |-> TRUE, analytics |-> analytics,
                                analytics_id |-> Len(db.analytics_data) + 1]
                     /\ db' = [db EXCEPT !.analytics_data = Append(@, analytics)]
    /\ UNCHANGED <<reqs, engineVars, loginVars>>

\* One request after the other, and the analytics.
NextMarkWork ==
    \/ \E r \in Requests : BeginMarkingAlone(r)
    \/ \E r \in Requests : ReadAndExtract(r)
    \/ \E r \in Requests : StoreMark(r)
    \/ \E r \in Requests : FinishMarking(r)
    \/ \E r \in Requests : HandleFailure(r)
    \/ GenerateAnalyticsEndpoint

SpecMarkWork == InitMarkWork /\ [][NextMarkWork]_vars

\* Requests that may overlap.
NextConcurrent ==
    \/ \E r \in Requests : BeginMarking(r)
    \/ \E r \in Requests : ReadAndExtract(r)
    \/ \E r \in Requests : StoreMark(r)
    \/ \E r \in Requests : FinishMarking(r)
    \/ \E r \in Requests : HandleFailure(r)

SpecConcurrent == InitMarkWork /\ [][NextConcurrent]_vars

(***************************************************************************)
(* C2: with an empty boundary map, every percentage p in [0, 100], whole   *)
(* or not, is graded A if p >= 80, B if p >= 70, C if p >= 60, D if        *)
(* p >= 50 and F otherwise.                                                *)
(***************************************************************************)
C2_DefaultBands ==
    (call.op = "_determine_grade" /\ call.grade_boundaries = << >>
        /\ PctGeq(call.percentage, 0) /\ PctLeq(call.percentage, 100)) =>
    LET p == call.percentage IN
        /\ PctGeq(p, 80) => ret.grade = <<"A">>
        /\ (PctGeq(p, 70) /\ ~PctGeq(p, 80)) => ret.grade = <<"B">>
        /\ (PctGeq(p, 60) /\ ~PctGeq(p, 70)) => ret.grade = <<"C">>
        /\ (PctGeq(p, 50) /\ ~PctGeq(p, 60)) => ret.grade = <<"D">>
        /\ ~PctGeq(p, 50) => ret.grade = <<"F">>

\* 59.5 lies between the default ranges D (50, 59) and C (60, 69).
C2_Witness ==
    /\ call.op = "_determine_grade"
    /\ call.grade_boundaries = << >>
    /\ call.percentage = Pct(119, 2, 0)
    /\ ret.grade = <<"D">>

(***************************************************************************)
(* C3: with a non-empty boundary map the grade is the label of the first   *)
(* entry, in insertion order, whose inclusive range holds the percentage;  *)
(* the fixed bands are used only when no entry holds it.                   *)
(***************************************************************************)
C3_FirstBoundaryWins ==
    (call.op = "_determine_grade" /\ call.grade_boundaries # << >>) =>
    LET p == call.percentage
        b == call.grade_boundaries
        hits == {i \in 1..Len(b) : b[i].lower * p.den <= p.num
                                    /\ p.num <= b[i].upper * p.den}
    IN  IF hits = {}
        THEN ret.grade = (IF p.num >= 80 * p.den THEN <<"A">>
                    ELSE IF p.num >= 70 * p.den THEN <<"B">>
                    ELSE IF p.num >= 60 * p.den THEN <<"C">>
                    ELSE IF p.num >= 50 * p.den THEN <<"D">> ELSE <<"F">>)
        ELSE \E i \in hits : (\A j \in hits : i <= j) /\ ret.grade = b[i].grade

\* Two overlapping entries hold the percentage; the earlier one's label is
\* returned.
C3_Witness ==
    /\ call.op = "_determine_grade"
    /\ Len(call.grade_boundaries) = 2
    /\ InBoundary(call.percentage, call.grade_boundaries[1])
    /\ InBoundary(call.percentage, call.grade_boundaries[2])
    /\ ret.grade = call.grade_boundaries[1].grade
    /\ ret.grade # call.grade_boundaries[2].grade

(***************************************************************************)
(* C6: process_rubric returns at least one criterion for every rubric      *)
(* text, and the three tiers exclude one another: what the weighted pass   *)
(* finds is returned alone; the paragraph pass contributes only when the   *)
(* weighted pass found nothing; a default criterion appears only when      *)
(* both found nothing.                                                     *)
(***************************************************************************)
C6_TiersExclusive ==
    call.op = "process_rubric" =>
    LET weighted == WeightedCriteria(call.rubric_text)
        paragraphs == ParagraphCriteria(call.rubric_text)
    IN  /\ Len(ret.criteria) >= 1
        /\ weighted # << >> => ret.criteria = weighted
        /\ (weighted = << >> /\ paragraphs # << >>) => ret.criteria = paragraphs
        /\ (weighted # << >> \/ paragraphs # << >>) =>
               Range(ret.criteria) \cap Range(default_criteria) = {}

\* Both passes would find a criterion; only the weighted one is returned.
C6_Witness ==
    /\ call.op = "process_rubric"
    /\ WeightedCriteria(call.rubric_text) # << >>
    /\ ParagraphCriteria(call.rubric_text) # << >>
    /\ ret.criteria = WeightedCriteria(call.rubric_text)

(***************************************************************************)
(* C7: when neither pass finds a criterion the result is exactly Content   *)
(* 40, Structure 30, Research 20, Language 10, in this order.              *)
(***************************************************************************)
C7_DefaultSet ==
    (/\ call.op = "process_rubric"
     /\ WeightedCriteria(call.rubric_text) = << >>
     /\ ParagraphCriteria(call.rubric_text) = << >>) =>
    [i \in 1..Len(ret.criteria) |->
        << ret.criteria[i].name, ret.criteria[i].weight >>]
      = << << <<"C", "o", "n", "t", "e", "n", "t">>, 40 >>,
           << <<"S", "t", "r", "u", "c", "t", "u", "r", "e">>, 30 >>,
           << <<"R", "e", "s", "e", "a", "r", "c", "h">>, 20 >>,
           << <<"L", "a", "n", "g", "u", "a", "g", "e">>, 10 >> >>

\* A rubric with text in it, but no header of either kind.
C7_Witness ==
    /\ call.op = "process_rubric"
    /\ call.rubric_text = <<"x", "\n", "\n", "x">>
    /\ Len(ret.criteria) = 4
    /\ ret.criteria[4].weight = 10

(***************************************************************************)
(* C8: a rubric text that contains a weighted header "<Name> (<Integer>%):" *)
(* yields one criterion per matched header, in text order, each with the   *)
(* header's integer as its weight, and neither a paragraph-pass criterion  *)
(* (weight 25) nor a default criterion.                                    *)
(***************************************************************************)
ContainsWeightedHeader(text) ==
    \E i \in 1..Len(text) : IsAlpha(text[i]) /\ HeaderEnd(text, i) # 0

\* The integers of the headers of the text.
HeaderWeights(text) ==
    {int(SubSeq(text, SkipName(text, i) + 1,
                SkipDigits(text, SkipName(text, i) + 1) - 1)) :
        i \in {k \in 1..Len(text) : IsAlpha(text[k]) /\ HeaderEnd(text, k) # 0}}

C8_WeightedHeadersHonoured ==
    (call.op = "process_rubric" /\ ContainsWeightedHeader(call.rubric_text)) =>
        /\ Len(ret.criteria) >= 1
        /\ \A i \in 1..Len(ret.criteria) :
               /\ ret.criteria[i].weight \in HeaderWeights(call.rubric_text)
               /\ ret.criteria[i] \notin Range(ParagraphCriteria(call.rubric_text))
               /\ ret.criteria[i] \notin Range(default_criteria)


(***************************************************************************)
(* C9: _calculate_topic_coverage returns 1.0 for an empty list of brief    *)
(* topics; otherwise the number of covered brief topics over the number    *)
(* of brief topics, a brief topic being covered iff some student topic     *)
(* contains it, is contained in it, or is similar to it beyond 0.7.  Each  *)
(* brief topic counts once, so the result lies in [0, 1], and it is 0.0    *)
(* with brief topics and no student topics.                                *)
(***************************************************************************)
C9_TopicCoverage ==
    call.op = "_calculate_topic_coverage" =>
    LET st == call.student_topics
        bt == call.brief_topics
        covered == {i \in 1..Len(bt) : \E j \in 1..Len(st) :
                       \/ Contains(st[j], bt[i])
                       \/ Contains(bt[i], st[j])
                       \/ <<bt[i], st[j]>> \in call.similar}
        c == ret.coverage
    IN  /\ c.den > 0 /\ 0 <= c.num /\ c.num <= c.den
        /\ bt = << >> => c.num = c.den
        /\ bt # << >> => c.num * Len(bt) = Cardinality(covered) * c.den
        /\ (bt # << >> /\ st = << >>) => c.num = 0

\* One brief topic is matched by both student topics, one only by
\* similarity, one by nothing: two of three are covered.
C9_Witness ==
    /\ call.op = "_calculate_topic_coverage"
    /\ call.brief_topics = << <<"a", "b">>, <<"c", "d">>, <<"e", "f">> >>
    /\ call.student_topics = << <<"a", "b", "c">>, <<"a", "b">> >>
    /\ call.similar = { << <<"c", "d">>, <<"a", "b">> >> }
    /\ ret.coverage = Ratio(2, 3)

(***************************************************************************)
(* C1: mark_student_work returns one entry of criteria_marks per rubric    *)
(* criterion, in rubric order; total_score is the sum of the entries'      *)
(* scores, max_score is 10 times the number of criteria, and percentage    *)
(* is total_score / max_score * 100, and exactly 0 when the rubric has no  *)
(* criteria.                                                               *)
(***************************************************************************)
RECURSIVE SumOfScores(_, _)
SumOfScores(marks, n) ==
    IF n = 0 THEN 0 ELSE SumOfScores(marks, n - 1) + marks[n].score

C1_ScoreArithmetic ==
    call.op = "mark_student_work" =>
    LET criteria == call.rubric_analysis.criteria
        marks == ret.criteria_marks
    IN  /\ Len(marks) = Len(criteria)
        /\ \A i \in 1..Len(criteria) : marks[i].name = criteria[i].name
        /\ ret.total_score = SumOfScores(marks, Len(marks))
        /\ ret.max_score = 10 * Len(criteria)
        /\ ret.percentage.den > 0
        /\ criteria = << >> =>
               ret.percentage.num = 0 /\ ret.percentage.ulp = 0
        /\ criteria # << >> =>
               ret.percentage.num * ret.max_score
                   = ret.total_score * 100 * ret.percentage.den

\* Two criteria with different scores: 11 of 20, 55 per cent.
C1_Witness ==
    /\ call.op = "mark_student_work"
    /\ Len(ret.criteria_marks) = 2
    /\ ret.criteria_marks[1].score # ret.criteria_marks[2].score
    /\ ret.total_score = 11
    /\ ret.max_score = 20
    /\ ret.percentage.num = 55 * ret.percentage.den

(***************************************************************************)
(* C4, as stated: for an empty submission text mark_student_work returns   *)
(* a result with word_count 0 and, under the default banding, grade F.     *)
(***************************************************************************)
C4_EmptyLowestBand ==
    (call.op = "mark_student_work" /\ call.student_work_text = << >>) =>
        /\ ret.statistics.word_count = 0
        /\ call.rubric_analysis.grade_boundaries = << >> => ret.grade = <<"F">>

(***************************************************************************)
(* C4, amended: for an empty submission text mark_student_work returns a   *)
(* complete result with word_count 0; under the default banding, and with  *)
(* keywords that are non-empty strings, the grade is F unless the rubric   *)
(* has criteria and none of them has a keyword: every criterion then       *)
(* scores the default 5 of 10, the percentage is 50 and the grade is D.    *)
(***************************************************************************)
C4_EmptySubmission ==
    (call.op = "mark_student_work" /\ call.student_work_text = << >>) =>
    LET criteria == call.rubric_analysis.criteria
        no_keywords == /\ criteria # << >>
                       /\ \A i \in 1..Len(criteria) : criteria[i].keywords = << >>
    IN  /\ DOMAIN ret = {"total_score", "max_score", "percentage", "grade",
                         "criteria_marks", "feedback", "statistics",
                         "url_analyses"}
        /\ ret.statistics.word_count = 0
        /\ (/\ call.rubric_analysis.grade_boundaries = << >>
            /\ \A i \in 1..Len(criteria) :
                   << >> \notin Range(criteria[i].keywords)) =>
               /\ ~no_keywords => ret.grade = <<"F">>
               /\ no_keywords =>
                      /\ ret.grade = <<"D">>
                      /\ ret.percentage.num = 50 * ret.percentage.den

\* An empty submission marked against two criteria without keywords.
C4_Witness ==
    /\ call.op = "mark_student_work"
    /\ call.student_work_text = << >>
    /\ call.rubric_analysis.grade_boundaries = << >>
    /\ Len(call.rubric_analysis.criteria) = 2
    /\ \A i \in 1..2 : call.rubric_analysis.criteria[i].keywords = << >>
    /\ ret.statistics.word_count = 0
    /\ ret.grade = <<"D">>

(***************************************************************************)
(* C5: the weights of the criteria do not influence the marking: a rubric  *)
(* analysis that differs from the one marked only in the weights of its    *)
(* criteria yields, for the same submission and brief, the same scores of  *)
(* the criteria, total_score, max_score, percentage and grade.             *)
(***************************************************************************)
OtherWeights == {5, 60}

Reweighted(rubric_analysis, weights) ==
    [rubric_analysis EXCEPT !.criteria =
        [i \in 1..Len(@) |-> [@[i] EXCEPT !.weight = weights[i]]]]

ScoreView(result) ==
    [scores |-> [i \in 1..Len(result.criteria_marks) |->
                    result.criteria_marks[i].score],
     total_score |-> result.total_score,
     max_score |-> result.max_score,
     percentage |-> result.percentage,
     grade |-> result.grade]

C5_WeightsIgnored ==
    call.op = "mark_student_work" =>
    \A weights \in [1..Len(call.rubric_analysis.criteria) -> OtherWeights] :
        ScoreView(mark_student_work(call.student_work_text, call.brief_analysis,
                      Reweighted(call.rubric_analysis, weights),
                      call.similar, call.responses))
          = ScoreView(ret)

\* Criteria of different weights and different scores.
C5_Witness ==
    /\ call.op = "mark_student_work"
    /\ Len(call.rubric_analysis.criteria) = 3
    /\ call.rubric_analysis.criteria[1].weight
           > call.rubric_analysis.criteria[2].weight
    /\ ret.criteria_marks[1].score < ret.criteria_marks[2].score
    /\ ret.criteria_marks[3].score # ret.criteria_marks[2].score

MarkingResultKeys ==
    {"total_score", "max_score", "percentage", "grade", "criteria_marks",
     "feedback", "statistics", "url_analyses"}

C12_SampleAtMost500 ==
    (call.op = "analyze_url_content" /\ call.response.ok) =>
        Len(ret.content_sample) <= 500

(***************************************************************************)
(* C12, amended: for every successfully fetched page the content_sample    *)
(* is the page content itself when that has at most 500 characters, and    *)
(* otherwise its first 500 characters followed by the marker "...", 503    *)
(* characters in all.                                                      *)
(***************************************************************************)
C12_SampleTruncated ==
    (call.op = "analyze_url_content" /\ call.response.ok) =>
    LET content == PageContent(call.response.paragraphs)
        sample == ret.content_sample
    IN  IF Len(content) <= 500 THEN sample = content
        ELSE /\ Len(sample) = 503
             /\ SubSeq(sample, 1, 500) = SubSeq(content, 1, 500)
             /\ SubSeq(sample, 501, 503) = <<".", ".", ".">>

\* A page whose content has 501 characters.
C12_Witness ==
    /\ call.op = "analyze_url_content"
    /\ call.response.ok
    /\ Len(PageContent(call.response.paragraphs)) = 501
    /\ Len(ret.content_sample) = 503

(***************************************************************************)
(* C13: generate_analytics called with an empty sequence of results        *)
(* returns the error dict, which has no key of a summary, and no summary   *)
(* with a count or averages of zero; a summary never has the key 'error'.  *)
(***************************************************************************)
C13_NoDataError ==
    call.op = "generate_analytics" =>
        IF call.marking_results = << >>
        THEN /\ DOMAIN ret = {"error"}
             /\ ret.error = "No marking results provided"
        ELSE /\ "error" \notin DOMAIN ret
             /\ ret.summary.count > 0

C13_Witness ==
    /\ call.op = "generate_analytics"
    /\ call.marking_results = << >>
    /\ "error" \in DOMAIN ret

(***************************************************************************)
(* C14: for a non-empty sequence of results, count is the number of        *)
(* results and avg_percentage the arithmetic mean of their percentages;    *)
(* one result of 72 per cent with the criterion 'Content' at 9 of 10       *)
(* gives avg_percentage 72, the average 90 for 'Content', and 'Content'    *)
(* among the strengths.                                                    *)
(***************************************************************************)
\* The sum of the first n percentages, in twentieths.
RECURSIVE SumTwentieths(_, _)
SumTwentieths(results, n) ==
    IF n = 0 THEN 0
    ELSE SumTwentieths(results, n - 1)
             + (results[n].percentage.num * 20) \div results[n].percentage.den

C14_CountAndMean ==
    (call.op = "generate_analytics" /\ call.marking_results # << >>) =>
    LET results == call.marking_results
        avg == ret.summary.avg_percentage
    IN  /\ ret.summary.count = Len(results)
        /\ avg.den > 0
        /\ avg.num * 20 * Len(results)
               = SumTwentieths(results, Len(results)) * avg.den
        /\ (/\ Len(results) = 1
            /\ results[1].percentage = Pct(72, 1, 0)
            /\ results[1].criteria_marks = << Mark(ContentName, 9, 10) >>) =>
               /\ avg.num = 72 * avg.den
               /\ Len(ret.criteria_analysis.averages) = 1
               /\ ret.criteria_analysis.averages[1].name = ContentName
               /\ ret.criteria_analysis.averages[1].average.num
                      = 90 * ret.criteria_analysis.averages[1].average.den
               /\ ret.criteria_analysis.strengths = << ContentName >>

\* Three results of 72, 45 and 59.5 per cent: the mean is 176.5 / 3.
C14_Witness ==
    /\ call.op = "generate_analytics"
    /\ Len(call.marking_results) = 3
    /\ \A i \in 1..3 : call.marking_results[i].percentage.num
                            \in {72, 45, 119}
    /\ ret.summary.count = 3
    /\ ret.summary.avg_percentage.num * 6 = 353 * ret.summary.avg_percentage.den

(***************************************************************************)
(* C15, as stated: criteria_averages has one entry per criterion name of   *)
(* the input, and its value is the sum of the percentages of the           *)
(* criterion (score / max_score * 100, and 0 when max_score is 0) divided  *)
(* by the number of input results.                                         *)
(***************************************************************************)
\* The marks of the results' criteria named `name`: <<result, position>>.
MarksNamed(results, name) ==
    {e \in UNION {{<<i, k>> : k \in 1..Len(Get(results[i], "criteria_marks", << >>))} :
                    i \in 1..Len(results)} :
        results[e[1]].criteria_marks[e[2]].name = name}

\* The percentage of a mark in thousandths: score / max_score * 100.
MarkThousandths(mark) ==
    IF mark.max_score > 0 THEN (mark.score * 100000) \div mark.max_score ELSE 0

RECURSIVE SumThousandths(_, _)
SumThousandths(results, marks) ==
    IF marks = {} THEN 0
    ELSE LET e == CHOOSE m \in marks : TRUE
         IN  MarkThousandths(results[e[1]].criteria_marks[e[2]])
                 + SumThousandths(results, marks \ {e})

NamesOfResults(results) ==
    UNION {{results[i].criteria_marks[k].name :
              k \in 1..Len(Get(results[i], "criteria_marks", << >>))} :
           i \in 1..Len(results)}

C15_MeanOverResults ==
    (call.op = "generate_analytics" /\ call.marking_results # << >>) =>
    LET results == call.marking_results
        averages == ret.criteria_analysis.averages
    IN  /\ {averages[k].name : k \in 1..Len(averages)} = NamesOfResults(results)
        /\ \A k \in 1..Len(averages) :
               averages[k].average.num * 1000 * Len(results)
                   = SumThousandths(results, MarksNamed(results, averages[k].name))
                         * averages[k].average.den

(***************************************************************************)
(* C15, amended: criteria_averages has one entry per criterion name of     *)
(* the input, and its value is the sum of the percentages of the criteria  *)
(* of that name (score / max_score * 100, and 0 when max_score is 0)       *)
(* divided by the number of criteria marks of that name in the input,      *)
(* which is the number of results only when every result marks the         *)
(* criterion once.                                                         *)
(***************************************************************************)
C15_MeanOverOccurrences ==
    (call.op = "generate_analytics" /\ call.marking_results # << >>) =>
    LET results == call.marking_results
        averages == ret.criteria_analysis.averages
    IN  /\ {averages[k].name : k \in 1..Len(averages)} = NamesOfResults(results)
        /\ \A k, j \in 1..Len(averages) : averages[k].name = averages[j].name => k = j
        /\ \A k \in 1..Len(averages) :
               /\ averages[k].average.den > 0
               /\ averages[k].average.num * 1000
                      * Cardinality(MarksNamed(results, averages[k].name))
                    = SumThousandths(results, MarksNamed(results, averages[k].name))
                          * averages[k].average.den

\* 'Content' is marked in both results and 'Style' in one of them: the
\* average of 'Style' is its one percentage, 30.
C15_Witness ==
    /\ call.op = "generate_analytics"
    /\ Len(call.marking_results) = 2
    /\ \A i \in 1..2 : "criteria_marks" \in DOMAIN call.marking_results[i]
    /\ Len(ret.criteria_analysis.averages) = 2
    /\ Cardinality(MarksNamed(call.marking_results, ContentName)) = 2
    /\ Cardinality(MarksNamed(call.marking_results, StyleName)) = 1
    /\ ret.criteria_analysis.averages[2].name = StyleName
    /\ ret.criteria_analysis.averages[2].average.num
           = 30 * ret.criteria_analysis.averages[2].average.den

(***************************************************************************)
(* C16: in the output of generate_analytics a criterion name is among the  *)
(* strengths iff its average is at least 70 and among the weaknesses iff   *)
(* its average is at most 50; no name is in both, and a name whose         *)
(* average lies strictly between 50 and 70 is in neither.                  *)
(***************************************************************************)
C16_StrengthsWeaknesses ==
    (call.op = "generate_analytics" /\ call.marking_results # << >>) =>
    LET averages == ret.criteria_analysis.averages
        strong == Range(ret.criteria_analysis.strengths)
        weak == Range(ret.criteria_analysis.weaknesses)
    IN  /\ strong \cap weak = {}
        /\ strong \cup weak \subseteq {averages[k].name : k \in 1..Len(averages)}
        /\ \A k \in 1..Len(averages) :
             LET avg == averages[k].average IN
               /\ averages[k].name \in strong <=> avg.num >= 70 * avg.den
               /\ averages[k].name \in weak <=> avg.num <= 50 * avg.den
               /\ (avg.num > 50 * avg.den /\ avg.num < 70 * avg.den) =>
                      averages[k].name \notin strong \cup weak

\* An average of exactly 70 is a strength, one of 30 a weakness.
C16_Witness ==
    /\ call.op = "generate_analytics"
    /\ call.marking_results # << >>
    /\ Len(ret.criteria_analysis.averages) = 2
    /\ ret.criteria_analysis.averages[1].average.num
           = 70 * ret.criteria_analysis.averages[1].average.den
    /\ ret.criteria_analysis.averages[2].average.num
           = 30 * ret.criteria_analysis.averages[2].average.den
    /\ ret.criteria_analysis.strengths = << ret.criteria_analysis.averages[1].name >>
    /\ ret.criteria_analysis.weaknesses = << ret.criteria_analysis.averages[2].name >>

(***************************************************************************)
(* C17: generate_recommendations given the error dict of                   *)
(* generate_analytics, an empty dict or None returns exactly one           *)
(* recommendation, of priority low, saying that there is not enough data,  *)
(* and none of the other recommendations, the two general ones included.   *)
(***************************************************************************)
C17_NotEnoughData ==
    (/\ call.op = "generate_recommendations"
     /\ \/ DOMAIN call.analytics = {}
        \/ call.analytics = None
        \/ "error" \in DOMAIN call.analytics) =>
        /\ Len(ret.recommendations) = 1
        /\ ret.recommendations[1].priority = "low"
        /\ ret.recommendations[1].type = "general"
        /\ ret.recommendations[1].text.before
               = "Not enough data to generate recommendations"

\* The analytics of no results at all.
C17_Witness ==
    /\ call.op = "generate_recommendations"
    /\ call.analytics = generate_analytics(<< >>)
    /\ Len(ret.recommendations) = 1

\* The analytics that generate_analytics returns for one result or more.
IsSummary(analytics) ==
    DOMAIN analytics = {"summary", "criteria_analysis", "statistics"}

(***************************************************************************)
(* C18: for a summary of generate_analytics, generate_recommendations      *)
(* starts with one recommendation of type content and priority high for    *)
(* each name of the weaknesses, in their order and naming the criterion,   *)
(* and no later recommendation is of type content.                         *)
(***************************************************************************)
C18_WeaknessRecommendations ==
    (call.op = "generate_recommendations" /\ IsSummary(call.analytics)) =>
    LET weak == call.analytics.criteria_analysis.weaknesses
        recs == ret.recommendations
    IN  /\ Len(recs) >= Len(weak)
        /\ \A k \in 1..Len(weak) :
               /\ recs[k].type = "content"
               /\ recs[k].priority = "high"
               /\ recs[k].text.name = weak[k]
        /\ \A k \in (Len(weak) + 1)..Len(recs) : recs[k].type # "content"

\* Two weak criteria.
C18_Witness ==
    /\ call.op = "generate_recommendations"
    /\ IsSummary(call.analytics)
    /\ Len(call.analytics.criteria_analysis.weaknesses) = 2
    /\ Len(call.analytics.criteria_analysis.strengths) = 1
    /\ ret.recommendations[2].type = "content"
    /\ ret.recommendations[3].type # "content"

(***************************************************************************)
(* C19: for a summary of generate_analytics there is at most one           *)
(* recommendation of type assessment: one of priority high iff             *)
(* avg_percentage < 60, one of priority medium iff avg_percentage > 80,    *)
(* and none when 60 <= avg_percentage <= 80.                               *)
(***************************************************************************)
C19_AssessmentRecommendation ==
    (call.op = "generate_recommendations" /\ IsSummary(call.analytics)) =>
    LET avg == call.analytics.summary.avg_percentage
        recs == ret.recommendations
        assessment == {k \in 1..Len(recs) : recs[k].type = "assessment"}
    IN  /\ Cardinality(assessment) <= 1
        /\ (\E k \in assessment : recs[k].priority = "high")
               <=> avg.num < 60 * avg.den
        /\ (\E k \in assessment : recs[k].priority = "medium")
               <=> avg.num > 80 * avg.den
        /\ (avg.num >= 60 * avg.den /\ avg.num <= 80 * avg.den) => assessment = {}

\* An average of 85 per cent.
C19_Witness ==
    /\ call.op = "generate_recommendations"
    /\ IsSummary(call.analytics)
    /\ call.analytics.summary.avg_percentage.num
           = 85 * call.analytics.summary.avg_percentage.den
    /\ \E k \in 1..Len(ret.recommendations) :
           /\ ret.recommendations[k].type = "assessment"
           /\ ret.recommendations[k].priority = "medium"

(***************************************************************************)
(* C20: for a summary of generate_analytics the last two recommendations   *)
(* are the example-work one and then the peer-review one, and there are    *)
(* |weaknesses| + (1 if avg_percentage < 60 or > 80) + (1 if the average   *)
(* word count < 500) + (1 if the average url count < 2) + 2 of them.       *)
(***************************************************************************)
C20_GeneralRecommendationsLast ==
    (call.op = "generate_recommendations" /\ IsSummary(call.analytics)) =>
    LET avg == call.analytics.summary.avg_percentage
        words == call.analytics.statistics.word_count.average
        urls == call.analytics.statistics.url_usage.average
        recs == ret.recommendations
        n == Len(recs)
    IN  /\ n = Len(call.analytics.criteria_analysis.weaknesses)
               + (IF avg.num < 60 * avg.den \/ avg.num > 80 * avg.den THEN 1 ELSE 0)
               + (IF words.num < 500 * words.den THEN 1 ELSE 0)
               + (IF urls.num < 2 * urls.den THEN 1 ELSE 0)
               + 2
        /\ recs[n - 1].text.before
               = "Provide more example work to help students understand expectations"
        /\ recs[n - 1].type = "guidance" /\ recs[n - 1].priority = "low"
        /\ recs[n].text.before
               = "Consider peer review activities to help students understand assessment criteria"
        /\ recs[n].type = "activity" /\ recs[n].priority = "medium"

\* A weak criterion, a low average, few words and few urls: six
\* recommendations.
C20_Witness ==
    /\ call.op = "generate_recommendations"
    /\ IsSummary(call.analytics)
    /\ Len(call.analytics.criteria_analysis.weaknesses) = 1
    /\ Len(ret.recommendations) = 6
    /\ ret.recommendations[6].type = "activity"

(***************************************************************************)
(* C21, as stated: process_assessment_brief puts a sentence among the      *)
(* requirements iff it holds, in any case, one of must / should / need to  *)
(* / required to / expected to, among the learning outcomes iff it holds   *)
(* one of learning outcome / will be able to / demonstrate / understand /  *)
(* apply, and among the submission details iff it holds one of submit /    *)
(* deadline / due date / format / word count; the three tests do not       *)
(* depend on one another, and an empty text gives three empty lists.       *)
(***************************************************************************)
submission_cues_listed ==
    << <<"s", "u", "b", "m", "i", "t">>,
       <<"d", "e", "a", "d", "l", "i", "n", "e">>,
       <<"d", "u", "e", " ", "d", "a", "t", "e">>,
       <<"f", "o", "r", "m", "a", "t">>,
       <<"w", "o", "r", "d", " ", "c", "o", "u", "n", "t">> >>


C21_CueBucketsListed ==
    call.op = "process_assessment_brief" =>
        /\ \A s \in Range(SentenceTexts(call.brief_text)) :
               /\ s \in Range(ret.requirements) <=> SearchCues(requirement_cues, s)
               /\ s \in Range(ret.learning_outcomes)
                      <=> SearchCues(learning_outcome_cues, s)
               /\ s \in Range(ret.submission_details)
                      <=> SearchCues(submission_cues_listed, s)
        /\ call.brief_text = << >> =>
               /\ ret.requirements = << >>
               /\ ret.learning_outcomes = << >>
               /\ ret.submission_details = << >>

(***************************************************************************)
(* C21, amended: as stated, with 'submission' among the cues of the        *)
(* submission details: submit / submission / deadline / due date / format  *)
(* / word count.                                                           *)
(***************************************************************************)
C21_CueBuckets ==
    call.op = "process_assessment_brief" =>
        /\ \A s \in Range(SentenceTexts(call.brief_text)) :
               /\ s \in Range(ret.requirements) <=> SearchCues(requirement_cues, s)
               /\ s \in Range(ret.learning_outcomes)
                      <=> SearchCues(learning_outcome_cues, s)
               /\ s \in Range(ret.submission_details)
                      <=> \/ SearchCues(submission_cues_listed, s)
                          \/ Contains(lower(s), <<"s", "u", "b", "m", "i", "s", "s", "i", "o", "n">>)
        /\ Range(ret.requirements) \cup Range(ret.learning_outcomes)
               \cup Range(ret.submission_details)
             \subseteq Range(SentenceTexts(call.brief_text))
        /\ call.brief_text = << >> =>
               /\ ret.requirements = << >>
               /\ ret.learning_outcomes = << >>
               /\ ret.submission_details = << >>

\* A sentence with 'Submission' alone, and one with a cue of each list.
C21_Witness ==
    /\ call.op = "process_assessment_brief"
    /\ Len(SentenceTexts(call.brief_text)) = 2
    /\ ret.requirements = << SentenceTexts(call.brief_text)[2] >>
    /\ ret.learning_outcomes = << SentenceTexts(call.brief_text)[2] >>
    /\ ret.submission_details = SentenceTexts(call.brief_text)
    /\ ~SearchCues(submission_cues_listed, SentenceTexts(call.brief_text)[1])

(***************************************************************************)
(* C23: extract_urls returns the empty list for a text that holds neither  *)
(* 'http://' nor 'https://'; otherwise it returns, in their order in the   *)
(* text and with repetitions, the candidates found from left to right,     *)
(* each with a scheme and a host; a url followed by white space or by a    *)
(* closing parenthesis is returned without that character, and 'See        *)
(* https://example.org/page and contact us' gives exactly                  *)
(* ['https://example.org/page'].                                           *)
(***************************************************************************)
\* A candidate begins at i: the scheme, '://' and a character of a host.
CandidateAt(text, i) ==
    \/ HasAt(text, i, <<"h", "t", "t", "p", ":", "/", "/">>)
          /\ i + 7 <= Len(text)
          /\ (IsAlpha(text[i + 7]) \/ IsDigit(text[i + 7])
                 \/ text[i + 7] \in {"-", "_", ".", "%"})
    \/ HasAt(text, i, <<"h", "t", "t", "p", "s", ":", "/", "/">>)
          /\ i + 8 <= Len(text)
          /\ (IsAlpha(text[i + 8]) \/ IsDigit(text[i + 8])
                 \/ text[i + 8] \in {"-", "_", ".", "%"})

\* The urls from the k-th on are the candidates of the text from `from` on.
RECURSIVE UrlsInOrder(_, _, _, _)
UrlsInOrder(text, urls, k, from) ==
    LET starts == {i \in from..Len(text) : CandidateAt(text, i)}
    IN  IF starts = {} THEN k > Len(urls)
        ELSE LET m == CHOOSE i \in starts : \A j \in starts : i <= j
             IN  /\ k <= Len(urls)
                 /\ HasAt(text, m, urls[k])
                 /\ UrlsInOrder(text, urls, k + 1, m + Len(urls[k]))

C23_UrlsInOrder ==
    call.op = "extract_urls" =>
        /\ (/\ ~Contains(call.text, <<"h", "t", "t", "p", ":", "/", "/">>)
            /\ ~Contains(call.text, <<"h", "t", "t", "p", "s", ":", "/", "/">>)) =>
               ret.urls = << >>
        /\ UrlsInOrder(call.text, ret.urls, 1, 1)
        /\ \A k \in 1..Len(ret.urls) :
               /\ CandidateAt(ret.urls[k], 1)
               /\ \A i \in 1..Len(ret.urls[k]) :
                      ~IsSpace(ret.urls[k][i]) /\ ret.urls[k][i] # ")"
               /\ urlparse(ret.urls[k]).scheme \in
                      {<<"h", "t", "t", "p">>, <<"h", "t", "t", "p", "s">>}
               /\ urlparse(ret.urls[k]).netloc # << >>
        /\ call.text = CitingSentence =>
               ret.urls = << SubSeq(CitingSentence, 5, 28) >>

\* The same url twice, with a blank after the first.
C23_Witness ==
    /\ call.op = "extract_urls"
    /\ Len(ret.urls) = 2
    /\ ret.urls[1] = ret.urls[2]
    /\ call.text = ret.urls[1] \o <<" ">> \o ret.urls[2]

(***************************************************************************)
(* C25: _calculate_criterion_relevance returns 0.5 for a criterion with    *)
(* no keywords; otherwise the number of keywords that are substrings of    *)
(* the text, case ignored, over the number of keywords, brought into       *)
(* [0.3, 0.9]; so every criterion score round(relevance * 10) of           *)
(* mark_student_work is a whole number from 3 to 9.                        *)
(***************************************************************************)
C25_RelevanceClamped ==
    /\ call.op = "_calculate_criterion_relevance" =>
         LET keywords == call.criterion_keywords
             found == {k \in 1..Len(keywords) :
                          Contains(lower(call.text), lower(keywords[k]))}
             r == ret.relevance
         IN  /\ r.den > 0
             /\ keywords = << >> => 2 * r.num = r.den
             /\ keywords # << >> =>
                  /\ 10 * r.num >= 3 * r.den /\ 10 * r.num <= 9 * r.den
                  /\ IF 10 * Cardinality(found) < 3 * Len(keywords)
                     THEN 10 * r.num = 3 * r.den
                     ELSE IF 10 * Cardinality(found) > 9 * Len(keywords)
                     THEN 10 * r.num = 9 * r.den
                     ELSE r.num * Len(keywords) = Cardinality(found) * r.den
    /\ call.op = "mark_student_work" =>
         \A i \in 1..Len(ret.criteria_marks) :
             ret.criteria_marks[i].score \in 3..9

\* Two of three keywords are in the text: the relevance is 2/3.
C25_Witness ==
    /\ call.op = "_calculate_criterion_relevance"
    /\ Len(call.criterion_keywords) = 3
    /\ 3 * ret.relevance.num = 2 * ret.relevance.den

(***************************************************************************)
(* C26: with p = score / max_score * 100, a criterion mark has a strength  *)
(* and no weakness for p >= 80, both for 40 <= p < 80, and a weakness and  *)
(* no strength for p < 40, so never neither; the strengths and the areas   *)
(* for improvement of the overall feedback are the strengths and the       *)
(* weaknesses of the marks that are not None, in the order of the          *)
(* criteria; and 'Focus on addressing the identified areas for             *)
(* improvement' is recommended iff there is an area for improvement.       *)
(***************************************************************************)
\* The values of the first n marks under `key` that are not None.
RECURSIVE GivenFeedback(_, _, _)
GivenFeedback(marks, key, n) ==
    IF n = 0 THEN << >>
    ELSE GivenFeedback(marks, key, n - 1)
             \o (IF marks[n].feedback[key] = None THEN << >>
                 ELSE << marks[n].feedback[key] >>)

C26_FeedbackBands ==
    call.op = "mark_student_work" =>
    LET marks == ret.criteria_marks
        focus == "Focus on addressing the identified areas for improvement"
    IN  /\ \A i \in 1..Len(marks) :
             LET p100 == marks[i].score * 100
                 max == marks[i].max_score
                 fb == marks[i].feedback
             IN  /\ p100 >= 80 * max => fb.strength # None /\ fb.weakness = None
                 /\ (p100 >= 40 * max /\ p100 < 80 * max) =>
                        fb.strength # None /\ fb.weakness # None
                 /\ p100 < 40 * max => fb.strength = None /\ fb.weakness # None
                 /\ fb.strength # None \/ fb.weakness # None
        /\ ret.feedback.strengths = GivenFeedback(marks, "strength", Len(marks))
        /\ ret.feedback.areas_for_improvement
               = GivenFeedback(marks, "weakness", Len(marks))
        /\ (focus \in Range(ret.feedback.recommendations))
               <=> ret.feedback.areas_for_improvement # << >>

\* Criteria at 90, 30 and 50 per cent.
C26_Witness ==
    /\ call.op = "mark_student_work"
    /\ Len(ret.criteria_marks) = 3
    /\ ret.criteria_marks[1].score = 9
    /\ ret.criteria_marks[2].score = 3
    /\ ret.criteria_marks[3].score = 5
    /\ Len(ret.feedback.strengths) = 2
    /\ Len(ret.feedback.areas_for_improvement) = 2

(***************************************************************************)
(* C27: when the rubric analysis has a criterion, the percentage that      *)
(* mark_student_work returns lies in [30, 90], whatever the text.          *)
(***************************************************************************)
C27_PercentageRange ==
    (call.op = "mark_student_work" /\ call.rubric_analysis.criteria # << >>) =>
        /\ PctGeq(ret.percentage, 30)
        /\ PctLeq(ret.percentage, 90)

\* Both ends: every criterion at 3 of 10, or every criterion at 9 of 10.
C27_Witness ==
    /\ call.op = "mark_student_work"
    /\ Len(ret.criteria_marks) = 2
    /\ ret.total_score \in {6, 18}
    /\ ret.percentage.num \in {30 * ret.percentage.den, 90 * ret.percentage.den}

Credited ==
    {i \in DOMAIN Users :
        /\ Users[i].username = call.username
        /\ Users[i].password_hash = [method |-> "scrypt", digest |-> call.password]}

\* What the claim says of a request whose credentials are those of a user.
LoginEstablished ==
    /\ sessions[call.client] # call.session => Credited # {}
    /\ \A i \in Credited :
        /\ sessions[call.client] = [user_id |-> Users[i].id,
                                    username |-> Users[i].username,
                                    role |-> Users[i].role]
        /\ "redirect" \in DOMAIN ret
        /\ ret.redirect = "admin.dashboard" <=> Users[i].role = "admin"
        /\ ret.redirect = "teacher.dashboard" <=> Users[i].role # "admin"

C24_FailedLoginWithoutUser ==
    (call.op = "login" /\ call.method = "POST") =>
        /\ LoginEstablished
        /\ Credited = {} =>
            /\ "user_id" \notin DOMAIN sessions[call.client]
            /\ ret.flashed = InvalidCredentials

(***************************************************************************)
(* C24 amended: as stated, except that a request with an unknown username  *)
(* or a wrong password leaves the session as the client sent it, so        *)
(* without user_id only when it held none.                                 *)
(***************************************************************************)
C24_FailedLoginKeepsSession ==
    (call.op = "login" /\ call.method = "POST") =>
        /\ LoginEstablished
        /\ Credited = {} =>
            /\ sessions[call.client] = call.session
            /\ ret.flashed = InvalidCredentials

\* A wrong password for a user that exists, from a client that is logged in
\* as another user.
C24_Witness ==
    /\ call.op = "login" /\ call.method = "POST"
    /\ call.username = "pupil" /\ call.password = "password"
    /\ "user_id" \in DOMAIN call.session
    /\ sessions[call.client].username = "admin"
    /\ ret.flashed = InvalidCredentials

(***************************************************************************)
(* C28: when no mark_work request is in progress, the status of the        *)
(* submission is not 'marking', and it is 'marked' iff a Mark is stored    *)
(* for it, whichever steps of the requests made so far failed: a failed    *)
(* request leaves no Mark behind and a request on a marked submission      *)
(* does not move it back to 'submitted'.                                   *)
(***************************************************************************)
C28_StatusMatchesMark ==
    (\A r \in Requests : ~InProgress(r)) =>
        /\ db.status # "marking"
        /\ db.status = "marked" <=> db.marks # << >>
        /\ db.status \in {"submitted", "marked"}

(***************************************************************************)
(* C29: when two mark_work requests for the submission that ran            *)
(* concurrently have both ended, with no fault other than those of their   *)
(* own making, at most one Mark exists for the submission, and if one      *)
(* exists the status is 'marked'.                                          *)
(***************************************************************************)
C29_ConcurrentRequests ==
    (\A r \in Requests :
        reqs[r].pc = "done" /\ reqs[r].concurrent /\ ~reqs[r].faulted) =>
        /\ Len(db.marks) <= 1
        /\ db.marks # << >> => db.status = "marked"

(***************************************************************************)
(* C30: the grade that the generate_analytics endpoint counts for the      *)
(* marked submission in the grade distribution is the grade that           *)
(* mark_work returned when it marked the submission.                       *)
(***************************************************************************)
C30_EndpointGradeIsReturnedGrade ==
    (call.op = "api.generate_analytics" /\ "analytics" \in DOMAIN ret
        /\ "summary" \in DOMAIN ret.analytics) =>
        \A r \in Requests :
            (reqs[r].response # None /\ "grade" \in DOMAIN reqs[r].response) =>
                ret.analytics.summary.grade_distribution
                    = << [grade |-> reqs[r].response.grade, count |-> 1] >>
=============================================================================
